---- MODULE Spec2Model ----
(***************************************************************************)
(* A model of ccls' indexer (src/indexer.cc): one indexing pass driven by  *)
(* idx::index, the per-pass staging state IndexParam, the occurrence       *)
(* handler IndexDataConsumer::handleDeclOccurence, the preprocessor        *)
(* callbacks IndexPPCallbacks and the post-pass that finalizes every       *)
(* IndexFile.                                                              *)
(*                                                                         *)
(* The semantic engine (clang) is the environment.  Its AST is a fixed     *)
(* small translation unit (the table AST below); the events it reports are *)
(* drawn from finite sets.  Source ranges are abstracted to small          *)
(* integers, role bitsets to sets of flag names, a std::optional or an     *)
(* owning pointer to a sequence of length 0 or 1, and an unordered_map to  *)
(* a function whose DOMAIN is the set of keys present.                     *)
(***************************************************************************)
EXTENDS Integers, Sequences, FiniteSets, TLC

(***************************************************************************)
(* Bounds of the model.                                                    *)
(***************************************************************************)
\* occurrence / preprocessor events reported by the engine in one pass
MaxEvents == 3
\* longest input list handed to uniquify in SpecUniquify
MaxLen == 4
\* longest rendered declaration handed to setName in SpecNames
MaxName == 4
\* calls of getFileLID on one IndexFile in SpecLids
MaxCalls == 4
\* nested calls of validateRecord the stack holds in SpecWalks
MaxDepth == 4

(***************************************************************************)
(* The environment: files known to the engine's SourceManager.             *)
(*   fid 0 : the invalid FileID                                            *)
(*   fid 1 : the main file                                                 *)
(*   fid 2 : a header                                                      *)
(*   fid 3 : the same header entered a second time (another FileID)        *)
(*   fid 4 : a buffer without FileEntry (built-in / command line)          *)
(***************************************************************************)
Fids == {1, 2, 3, 4}

\* SM.getMainFileID()
getMainFileID == 1

\* SM.getFileEntryForID followed by pathFromFileEntry; "" stands for a null
\* FileEntry.
pathFromFileEntry(fid) ==
  CASE fid = 1 -> "main.cc"
    [] fid = 2 -> "a.h"
    [] fid = 3 -> "a.h"
    [] OTHER   -> ""

\* fe->getModificationTime(), or lastWriteTime(path) when the engine reports 0
ModificationTime(path) ==
  CASE path = "main.cc" -> 7
    [] path = "a.h"     -> 5
    [] OTHER            -> 0

\* source positions at which the engine reports plain references and macro
\* uses
Locs == {1, 2}

(***************************************************************************)
(* The environment: the declarations of the translation unit.              *)
(*   kind    D->getKind()                                                  *)
(*   canon   D->getCanonicalDecl()                                         *)
(*   sem     OrigD->getDeclContext()->getRedeclContext()                   *)
(*   lex     ASTNode.ContainerDC->getRedeclContext() of the declaration    *)
(*   linkage D is a NamedDecl with linkage                                 *)
(*   fid/loc where the declaration is written                              *)
(*   adj     the node one iteration of getAdjustedDecl moves to ("" none)  *)
(*   bases   getTypeDecl of each CXXBaseSpecifier                          *)
(*   over    Ctx->getOverriddenMethods                                     *)
(*   first   D->isFirstDecl()                                              *)
(*   anon    isAnonymousNamespace()                                        *)
(*   tdecl   getTypeDecl(type of the value) ("" none), builtin: the        *)
(*           BuiltinType kind (0 when the type is not a builtin)           *)
(*   usr     index::generateUSRForDecl                                     *)
(*   name / qual / sig / comment : what the engine's printers return       *)
(***************************************************************************)
Node(k, c, s, l, lk, f, p, a, b, o, t, bt, u, n, q, sg, cm) ==
  [kind |-> k, canon |-> c, sem |-> s, lex |-> l, linkage |-> lk, fid |-> f,
   loc |-> p, adj |-> a, bases |-> b, over |-> o, first |-> TRUE,
   anon |-> (k = "Namespace" /\ n = ""), tdecl |-> t, builtin |-> bt,
   usr |-> u, name |-> n, qual |-> q, sig |-> sg, comment |-> cm]

AST ==
  [tu    |-> Node("TranslationUnit", "tu", "tu", "tu", FALSE, 1, 0, "", <<>>, <<>>, "", 0,
                  "c:", "", "", "", ""),
   ns1   |-> Node("Namespace", "ns1", "tu", "tu", TRUE, 2, 10, "", <<>>, <<>>, "", 0,
                  "c:@N@ns1", "ns1", "ns1", "namespace ns1 {}", ""),
   ns2   |-> Node("Namespace", "ns2", "ns1", "ns1", TRUE, 2, 11, "", <<>>, <<>>, "", 0,
                  "c:@N@ns1@N@ns2", "ns2", "ns1::ns2", "namespace ns1::ns2 {}", ""),
   an    |-> Node("Namespace", "an", "ns1", "ns1", FALSE, 1, 12, "", <<>>, <<>>, "", 0,
                  "c:@N@ns1@aN", "", "ns1::(anon)", "", ""),
   A     |-> Node("CXXRecord", "A", "tu", "tu", TRUE, 2, 13, "", <<>>, <<>>, "", 0,
                  "c:@S@A", "A", "A", "struct A {}", "base"),
   B     |-> Node("CXXRecord", "B", "tu", "tu", TRUE, 2, 14, "", <<"A">>, <<>>, "", 0,
                  "c:@S@B", "B", "B", "struct B : A {}", ""),
   Am    |-> Node("CXXMethod", "Am", "A", "A", TRUE, 2, 15, "", <<>>, <<>>, "", 0,
                  "c:@S@A@F@m#", "m", "A::m", "virtual void A::m()", ""),
   Bm    |-> Node("CXXMethod", "Bm", "B", "B", TRUE, 2, 16, "", <<>>, <<"Am">>, "", 0,
                  "c:@S@B@F@m#", "m", "B::m", "void B::m()", "doc m"),
   BmDef |-> Node("CXXMethod", "Bm", "B", "tu", TRUE, 2, 17, "", <<>>, <<"Am">>, "", 0,
                  "c:@S@B@F@m#", "m", "B::m", "void B::m()", "doc m"),
   g     |-> Node("Function", "g", "tu", "tu", TRUE, 1, 18, "", <<>>, <<>>, "", 0,
                  "c:@F@g#", "g", "g", "void g()", ""),
   gDef  |-> Node("Function", "g", "tu", "tu", TRUE, 1, 19, "", <<>>, <<>>, "", 0,
                  "c:@F@g#", "g", "g", "void g()", "doc g"),
   x     |-> Node("Var", "x", "an", "an", TRUE, 1, 20, "", <<>>, <<>>, "S", 0,
                  "c:@N@ns1@aN@x", "x", "ns1::x", "T<int> ns1::x", ""),
   lv    |-> Node("Var", "lv", "gDef", "gDef", FALSE, 1, 21, "", <<>>, <<>>, "", 8,
                  "c:main.cc@lv", "lv", "lv", "int lv", ""),
   T     |-> Node("ClassTemplate", "T", "tu", "tu", TRUE, 2, 22, "", <<>>, <<>>, "", 0,
                  "c:@ST>1#T@T", "T", "T", "template <class> struct T {}", ""),
   S     |-> Node("ClassTemplateSpecialization", "S", "tu", "tu", TRUE, 2, 22, "T",
                  <<>>, <<>>, "", 0, "c:@S@T>#I", "T", "T", "struct T<int> {}", ""),
   us    |-> Node("Using", "us", "ns1", "ns1", TRUE, 1, 23, "", <<>>, <<>>, "", 0,
                  "c:@N@ns1@UD@A", "A", "ns1::A", "using ::A", ""),
   \* an enumeration of the main file and its enumerator
   En    |-> Node("Enum", "En", "tu", "tu", TRUE, 1, 33, "", <<>>, <<>>, "", 0,
                  "c:@E@En", "En", "En", "enum En {}", ""),
   ec    |-> Node("EnumConstant", "ec", "En", "En", TRUE, 1, 34, "", <<>>, <<>>, "En", 0,
                  "c:@E@En@ec", "ec", "ec", "ec", ""),
   \* a using-declaration written in the header
   uh    |-> Node("Using", "uh", "tu", "tu", TRUE, 2, 28, "", <<>>, <<>>, "", 0,
                  "c:@UD@B", "B", "B", "using ns1::B", ""),
   \* a member class of a class instantiated inside an instantiation: I2 is
   \* instantiated from I1, which is instantiated from the member I0 of the
   \* template
   I0    |-> Node("CXXRecord", "I0", "T", "T", TRUE, 2, 35, "", <<>>, <<>>, "", 0,
                  "c:@ST>1#T@T@S@I", "I", "T::I", "struct T::I {}", ""),
   I1    |-> Node("CXXRecord", "I1", "S", "S", TRUE, 2, 35, "I0", <<>>, <<>>, "", 0,
                  "c:@S@T>#I@ST>1#T@N@S@I", "I", "T::I", "struct T::I {}", ""),
   I2    |-> Node("CXXRecord", "I2", "S", "S", TRUE, 2, 35, "I1", <<>>, <<>>, "", 0,
                  "c:@S@T>#I@S@N>#C@S@I", "I", "T::I", "struct T::I {}", ""),
   Af    |-> Node("Field", "Af", "A", "A", TRUE, 2, 24, "", <<>>, <<>>, "", 8,
                  "c:@S@A@FI@f", "f", "A::f", "int A::f", ""),
   td    |-> Node("TypeAlias", "td", "tu", "tu", TRUE, 1, 25, "", <<>>, <<>>, "S", 0,
                  "c:@td", "td", "td", "using td = T<int>", ""),
   \* a second declaration of td in the same scope, written as a typedef (a
   \* redeclaration the language allows; the engine reports each as a
   \* definition)
   td2   |-> Node("Typedef", "td", "tu", "tu", TRUE, 1, 27, "", <<>>, <<>>, "S", 0,
                  "c:@td", "td", "td", "typedef T<int> td", "again"),
   bd    |-> Node("Binding", "bd", "gDef", "gDef", FALSE, 1, 26, "", <<>>, <<>>, "", 8,
                  "c:main.cc@bd", "bd", "bd", "int bd", "")]

\* RD->fields(), Ctx->getFieldOffset(FD), and the record an unnamed field
\* embeds ("" when the field is named or is no record)
Fields(RD) == IF RD = "A" THEN <<"Af">> ELSE <<>>
getFieldOffset(FD) == IF FD = "Af" THEN 4 ELSE 0
EmbeddedRecord(FD) == ""
\* RD is a complete, non-dependent, valid definition and validateRecord(RD)
RecordComplete(RD) == TRUE
\* getSpecializedTemplateOrPartial / getSpecializedTemplate /
\* getInstantiatedFromMemberClass of a specialization
SpecializedFrom(D) == IF D = "S" THEN "T" ELSE ""
\* getTypeDecl(T, &specialization) reports a TemplateSpecialization type
IsSpecializationType(D) == D \in {"td", "td2"}

Decls == DOMAIN AST

\* hashUsr: a 64-bit hash of the textual reference; on this translation unit
\* it is the position of the text in the table below.
UsrTexts ==
  <<"c:", "c:@N@ns1", "c:@N@ns1@N@ns2", "c:@N@ns1@aN", "c:@S@A", "c:@S@B",
    "c:@S@A@F@m#", "c:@S@B@F@m#", "c:@F@g#", "c:@N@ns1@aN@x", "c:main.cc@lv",
    "c:@ST>1#T@T", "c:@S@T>#I", "c:@N@ns1@UD@A", "@macro@MAX",
    "c:@S@A@FI@f", "c:@td", "c:main.cc@bd", "c:@UD@B",
    "c:@E@En", "c:@E@En@ec", "c:@ST>1#T@T@S@I", "c:@S@T>#I@ST>1#T@N@S@I",
    "c:@S@T>#I@S@N>#C@S@I">>

hashUsr(text) ==
  100 + (CHOOSE i \in 1..Len(UsrTexts) : UsrTexts[i] = text)

generateUSRForDecl(D) == AST[D].usr

\* the macros of the translation unit; getMacro builds "@macro@" + Name
Macros == {"MAX"}
getMacro(name) == hashUsr(CASE name = "MAX" -> "@macro@MAX")

(***************************************************************************)
(* Configuration (g_config->index) and the process-wide matcher.           *)
(***************************************************************************)
\* multiVersionMatcher->matches(path): the matcher idx::init builds from
\* g_config->index.multiVersionWhitelist (the blacklist is empty)
multiVersionMatches(whitelist, path) == path \in whitelist

(***************************************************************************)
(* Role flags and records of location (indexer.hh).                        *)
(***************************************************************************)
Use(range, role, file_id) ==
  [range |-> range, role |-> role, file_id |-> file_id]

DeclRef(use, extent) ==
  [range |-> use.range, role |-> use.role, file_id |-> use.file_id,
   extent |-> extent]

SymbolRef(range, usr, kind, role) ==
  [range |-> range, usr |-> usr, kind |-> kind, role |-> role]

(***************************************************************************)
(* Entities.  IndexFunc, IndexType and IndexVar are modelled by one record *)
(* shape; a field a struct does not have stays at its initial value.       *)
(***************************************************************************)
DefaultEntity ==
  [usr |-> 0, declarations |-> <<>>, uses |-> <<>>, derived |-> <<>>,
   instances |-> <<>>,
   def |-> [spell |-> <<>>, kind |-> "Unknown", parent_kind |-> "Unknown",
            detailed_name |-> "", hover |-> "", comments |-> "",
            bases |-> <<>>, funcs |-> <<>>, types |-> <<>>, vars |-> <<>>,
            callees |-> <<>>, alias_of |-> 0, type |-> 0]]

\* the values of enum class LanguageId; an IndexFile starts as C
LanguageId(name) ==
  CASE name = "C" -> 0
    [] name = "Cpp" -> 1
    [] name = "ObjC" -> 2
    [] name = "ObjCpp" -> 3

\* (int)a | (int)b on two-bit values
BitOr(a, b) ==
  (IF a % 2 = 1 \/ b % 2 = 1 THEN 1 ELSE 0)
    + (IF (a \div 2) % 2 = 1 \/ (b \div 2) % 2 = 1 THEN 2 ELSE 0)

\* IndexFile::IndexFile(path, contents, no_linkage)
NewIndexFile(path, nl) ==
  [path |-> path, no_linkage |-> nl, mtime |-> 0, import_file |-> "",
   usr2func |-> <<>>, usr2type |-> <<>>, usr2var |-> <<>>,
   language |-> LanguageId("C"),
   uid2lid_and_path |-> <<>>, lid2path |-> <<>>, dependencies |-> <<>>,
   includes |-> <<>>, skipped_ranges |-> <<>>]

\* try_emplace on one of the three maps of an IndexFile
toFuncReset(db, usr) ==
  [db EXCEPT !.usr2func =
     (usr :> [DefaultEntity EXCEPT !.usr = usr]) @@ @]

toFunc(db, usr) ==
  IF usr \in DOMAIN db.usr2func
    THEN db
    ELSE [db EXCEPT !.usr2func =
            (usr :> [DefaultEntity EXCEPT !.usr = usr]) @@ @]

toType(db, usr) ==
  IF usr \in DOMAIN db.usr2type
    THEN db
    ELSE [db EXCEPT !.usr2type =
            (usr :> [DefaultEntity EXCEPT !.usr = usr]) @@ @]

toVar(db, usr) ==
  IF usr \in DOMAIN db.usr2var
    THEN db
    ELSE [db EXCEPT !.usr2var =
            (usr :> [DefaultEntity EXCEPT !.usr = usr]) @@ @]

\* the map a storage kind selects, and its accessor
MapOf(kind) ==
  CASE kind = "Func" -> "usr2func"
    [] kind = "Type" -> "usr2type"
    [] kind = "Var"  -> "usr2var"

toEntity(db, kind, usr) ==
  CASE kind = "Func" -> toFunc(db, usr)
    [] kind = "Type" -> toType(db, usr)
    [] kind = "Var"  -> toVar(db, usr)

(***************************************************************************)
(* uniquify: keeps the first occurrence of every element, in order.        *)
(* The loop runs i over the list with the set `seen` and compacts the list *)
(* in place (a[n++] = a[i]); a.resize(n) keeps the prefix of length n.     *)
(***************************************************************************)
RECURSIVE uniquifyLoop(_, _, _, _)
uniquifyLoop(a, i, n, seen) ==
  IF i > Len(a)
    THEN SubSeq(a, 1, n)
    ELSE IF a[i] \in seen
           THEN uniquifyLoop(a, i + 1, n, seen)
           ELSE uniquifyLoop([a EXCEPT ![n + 1] = a[i]], i + 1, n + 1,
                             seen \cup {a[i]})

\* a variant of the loop whose set remembers the previous element only
RECURSIVE uniquifyLoopAdjacent(_, _, _, _)
uniquifyLoopAdjacent(a, i, n, seen) ==
  IF i > Len(a)
    THEN SubSeq(a, 1, n)
    ELSE IF a[i] \in seen
           THEN uniquifyLoopAdjacent(a, i + 1, n, seen)
           ELSE uniquifyLoopAdjacent([a EXCEPT ![n + 1] = a[i]], i + 1, n + 1,
                                     {a[i]})

uniquifyAdjacent(a) == uniquifyLoopAdjacent(a, 1, 0, {})

uniquify(a) == uniquifyLoop(a, 1, 0, {})

(***************************************************************************)
(* Classifier.  getKind(D, kind) returns the storage kind and assigns the  *)
(* fine kind through its reference parameter; k0 is the value the          *)
(* reference holds before the call.                                        *)
(***************************************************************************)
getKindOf(dk, k0, isStruct, isStatic) ==
  CASE dk = "LinkageSpec" -> [ret |-> "Invalid", kind |-> k0]
    [] dk \in {"Namespace", "NamespaceAlias"} ->
         [ret |-> "Type", kind |-> "Namespace"]
    [] dk \in {"ObjCCategory", "ObjCCategoryImpl", "ObjCImplementation",
               "ObjCInterface", "ObjCProtocol"} ->
         [ret |-> "Type", kind |-> "Interface"]
    [] dk = "ObjCMethod" -> [ret |-> "Func", kind |-> "Method"]
    [] dk = "ObjCProperty" -> [ret |-> "Type", kind |-> "Property"]
    [] dk = "ClassTemplate" -> [ret |-> "Type", kind |-> "Class"]
    [] dk = "FunctionTemplate" -> [ret |-> "Func", kind |-> "Function"]
    [] dk = "TypeAliasTemplate" -> [ret |-> "Type", kind |-> "TypeAlias"]
    [] dk = "VarTemplate" -> [ret |-> "Var", kind |-> "Variable"]
    [] dk = "TemplateTemplateParm" ->
         [ret |-> "Type", kind |-> "TypeParameter"]
    [] dk = "Enum" -> [ret |-> "Type", kind |-> "Enum"]
    [] dk \in {"CXXRecord", "Record"} ->
         [ret |-> "Type", kind |-> IF isStruct THEN "Struct" ELSE "Class"]
    [] dk \in {"ClassTemplateSpecialization",
               "ClassTemplatePartialSpecialization"} ->
         [ret |-> "Type", kind |-> "Class"]
    [] dk = "TemplateTypeParm" -> [ret |-> "Type", kind |-> "TypeParameter"]
    [] dk \in {"TypeAlias", "Typedef", "UnresolvedUsingTypename"} ->
         [ret |-> "Type", kind |-> "TypeAlias"]
    [] dk = "Using" -> [ret |-> "Invalid", kind |-> "Null"]
    [] dk = "Binding" -> [ret |-> "Var", kind |-> "Variable"]
    [] dk \in {"Field", "ObjCIvar"} -> [ret |-> "Var", kind |-> "Field"]
    [] dk = "Function" -> [ret |-> "Func", kind |-> "Function"]
    [] dk = "CXXMethod" ->
         [ret |-> "Func",
          kind |-> IF isStatic THEN "StaticMethod" ELSE "Method"]
    [] dk = "CXXConstructor" -> [ret |-> "Func", kind |-> "Constructor"]
    [] dk \in {"CXXConversion", "CXXDestructor"} ->
         [ret |-> "Func", kind |-> "Method"]
    [] dk = "NonTypeTemplateParm" -> [ret |-> "Var", kind |-> "Parameter"]
    [] dk \in {"Var", "Decomposition"} -> [ret |-> "Var", kind |-> "Variable"]
    [] dk \in {"ImplicitParam", "ParmVar"} ->
         [ret |-> "Var", kind |-> "Parameter"]
    [] dk \in {"VarTemplateSpecialization",
               "VarTemplatePartialSpecialization"} ->
         [ret |-> "Var", kind |-> "Variable"]
    [] dk = "EnumConstant" -> [ret |-> "Var", kind |-> "EnumMember"]
    [] dk = "UnresolvedUsingValue" -> [ret |-> "Var", kind |-> "Variable"]
    [] dk = "TranslationUnit" -> [ret |-> "Invalid", kind |-> k0]
    [] OTHER -> [ret |-> "Invalid", kind |-> k0]

\* the records of the translation unit are structs, its methods not static
IsStruct(D) == TRUE
IsStatic(D) == FALSE

getKind(D, k0) == getKindOf(AST[D].kind, k0, IsStruct(D), IsStatic(D))

\* a variant that logs every Invalid event
unhandledLoggedAlways(kind, ls_kind) == kind = "Invalid"

\* case Kind::Invalid of handleDeclOccurence: "Unhandled ..." is logged
unhandledLogged(kind, ls_kind) == kind = "Invalid" /\ ls_kind = "Unknown"

\* getDeclLanguage(D)
getDeclLanguage(D) ==
  LET dk == AST[D].kind
  IN  CASE dk \in {"ImplicitParam", "ObjCAtDefsField", "ObjCCategory",
                   "ObjCCategoryImpl", "ObjCCompatibleAlias",
                   "ObjCImplementation", "ObjCInterface", "ObjCIvar",
                   "ObjCMethod", "ObjCProperty", "ObjCPropertyImpl",
                   "ObjCProtocol", "ObjCTypeParam"} -> LanguageId("ObjC")
        [] dk \in {"CXXConstructor", "CXXConversion", "CXXDestructor",
                   "CXXMethod", "CXXRecord", "ClassTemplate",
                   "ClassTemplatePartialSpecialization",
                   "ClassTemplateSpecialization", "Friend", "FriendTemplate",
                   "FunctionTemplate", "LinkageSpec", "Namespace",
                   "NamespaceAlias", "NonTypeTemplateParm", "StaticAssert",
                   "TemplateTemplateParm", "TemplateTypeParm",
                   "UnresolvedUsingTypename", "UnresolvedUsingValue", "Using",
                   "UsingDirective", "UsingShadow"} -> LanguageId("Cpp")
        [] OTHER -> LanguageId("C")

\* db->language = LanguageId((int)db->language | (int)getDeclLanguage(D))
withLanguage(db, D) ==
  [db EXCEPT !.language = BitOr(@, getDeclLanguage(D))]

(***************************************************************************)
(* getAdjustedDecl: follows `adj` until a node it no longer replaces.      *)
(* "" stands for a null declaration.                                       *)
(***************************************************************************)
RECURSIVE getAdjustedDecl(_)
getAdjustedDecl(D) ==
  IF D = "" THEN ""
  ELSE IF AST[D].adj # "" THEN getAdjustedDecl(AST[D].adj)
  ELSE D

\* the loops at handleDeclOccurence that leave anonymous namespaces
RECURSIVE skipAnonymous(_)
skipAnonymous(DC) ==
  IF AST[DC].kind = "Namespace" /\ AST[DC].anon
    THEN skipAnonymous(AST[DC].sem)
    ELSE DC

(***************************************************************************)
(* The pass state handed through the handlers:                             *)
(*   uid2file, uid2multi, Decl2Info : IndexParam                           *)
(*   dbs       : the IndexFile owned by uid2file[fid].db (fid in DOMAIN    *)
(*               dbs iff the pointer is not null)                          *)
(*   vfs       : the staleness cache shared between passes                 *)
(*   generated : how often generateUSRForDecl ran per canonical node       *)
(*   stamped   : the results of the vfs.stamp calls, per file handle        *)
(***************************************************************************)

\* VFS::stamp(path, ts, step): whether (path, ts, step) still needs indexing,
\* recording that the caller is about to do it.
stampResult(v, path, ts, step) == <<path, ts, step>> \notin v
stampState(v, path, ts, step) == v \cup {<<path, ts, step>>}

\* the mode tag seenFile passes to stamp
modeTag(nl) == IF nl THEN 3 ELSE 1

\* the vfs.stamp results recorded so far for a handle
Calls(f, k) == IF k \in DOMAIN f THEN f[k] ELSE <<>>

\* a seenFile that asks the staleness cache on every call
seenFileEveryCall(P, fid, nl) ==
  IF pathFromFileEntry(fid) = ""
    THEN [P EXCEPT !.uid2file = (fid :> [path |-> "", mtime |-> 0]) @@ @]
    ELSE [P EXCEPT
            !.uid2file = (fid :> [path |-> pathFromFileEntry(fid),
                                  mtime |-> ModificationTime(
                                              pathFromFileEntry(fid))]) @@ @,
            !.vfs = stampState(@, pathFromFileEntry(fid),
                               ModificationTime(pathFromFileEntry(fid)),
                               modeTag(nl)),
            !.stamped = (fid :> Append(Calls(@, fid),
                                       stampResult(P.vfs, pathFromFileEntry(fid),
                                         ModificationTime(pathFromFileEntry(fid)),
                                         modeTag(nl)))) @@ @,
            !.dbs = IF stampResult(P.vfs, pathFromFileEntry(fid),
                                   ModificationTime(pathFromFileEntry(fid)),
                                   modeTag(nl))
                      THEN (fid :> NewIndexFile(pathFromFileEntry(fid), nl)) @@ @
                      ELSE @]

\* a seenFile that creates the IndexFile whatever vfs.stamp returns
seenFileIgnoringStamp(P, fid, nl) ==
  IF fid \in DOMAIN P.uid2file
    THEN P
    ELSE IF pathFromFileEntry(fid) = ""
      THEN [P EXCEPT !.uid2file = (fid :> [path |-> "", mtime |-> 0]) @@ @]
      ELSE [P EXCEPT
              !.uid2file = (fid :> [path |-> pathFromFileEntry(fid),
                                    mtime |-> ModificationTime(
                                                pathFromFileEntry(fid))]) @@ @,
              !.vfs = stampState(@, pathFromFileEntry(fid),
                                 ModificationTime(pathFromFileEntry(fid)),
                                 modeTag(nl)),
              !.stamped = (fid :> Append(Calls(@, fid),
                                         stampResult(P.vfs, pathFromFileEntry(fid),
                                           ModificationTime(pathFromFileEntry(fid)),
                                           modeTag(nl)))) @@ @,
              !.dbs = (fid :> NewIndexFile(pathFromFileEntry(fid), nl)) @@ @]

seenFile(P, fid, nl) ==
  IF fid \in DOMAIN P.uid2file
    THEN P
    ELSE LET path == pathFromFileEntry(fid)
             mtime == ModificationTime(path)
         IN  IF path = ""
               THEN [P EXCEPT !.uid2file = (fid :> [path |-> "", mtime |-> 0]) @@ @]
               ELSE IF ~stampResult(P.vfs, path, mtime, modeTag(nl))
                 THEN [P EXCEPT
                         !.uid2file = (fid :> [path |-> path, mtime |-> mtime]) @@ @,
                         !.vfs = stampState(@, path, mtime, modeTag(nl)),
                         !.stamped = (fid :> Append(Calls(@, fid), FALSE)) @@ @]
                 ELSE [P EXCEPT
                         !.uid2file = (fid :> [path |-> path, mtime |-> mtime]) @@ @,
                         !.vfs = stampState(@, path, mtime, modeTag(nl)),
                         !.stamped = (fid :> Append(Calls(@, fid), TRUE)) @@ @,
                         !.dbs = (fid :> NewIndexFile(path, nl)) @@ @]

\* a consumeFile that hands out an IndexFile for every handle
consumeFileAlwaysOwns(P, fid, nl) ==
  IF fid \in DOMAIN seenFile(P, fid, nl).dbs
    THEN seenFile(P, fid, nl)
    ELSE [seenFile(P, fid, nl) EXCEPT
            !.dbs = (fid :> NewIndexFile(pathFromFileEntry(fid), nl)) @@ @]

\* consumeFile(fid) is seenFile(fid) followed by uid2file[fid].db.get()
consumeFile(P, fid, nl) == seenFile(P, fid, nl)
hasDb(P, fid) == fid \in DOMAIN P.dbs

\* useMultiVersion(fid): memoized in uid2multi
useMultiVersion(P, fid, whitelist) ==
  IF fid \in DOMAIN P.uid2multi
    THEN P
    ELSE [P EXCEPT !.uid2multi =
            (fid :> (pathFromFileEntry(fid) # ""
                     /\ multiVersionMatches(whitelist,
                                            pathFromFileEntry(fid)))) @@ @]

\* counters kept as maps that hold only the keys counted so far
Count(f, k) == IF k \in DOMAIN f THEN f[k] ELSE 0
Bump(f, k) == (k :> Count(f, k) + 1) @@ f

(***************************************************************************)
(* Identity resolver.                                                      *)
(***************************************************************************)
getUsrAlways(P, D) ==
  LET c == AST[D].canon
  IN  [P EXCEPT
        !.Decl2Info = (c :> [usr |-> hashUsr(generateUSRForDecl(c)),
                             short_name |-> AST[D].name,
                             qualified |-> AST[D].sig]) @@
                      [k \in DOMAIN @ \ {c} |-> @[k]],
        !.generated = Bump(@, c)]

getUsr(P, D) ==
  LET c == AST[D].canon
  IN  IF c \in DOMAIN P.Decl2Info
        THEN P
        ELSE [P EXCEPT
                !.Decl2Info = (c :> [usr |-> hashUsr(generateUSRForDecl(c)),
                                     short_name |-> AST[c].name,
                                     qualified |-> AST[c].qual]) @@ @,
                !.generated = Bump(@, c)]

\* the value getUsr returns, and the record it hands out through `info`
Usr(P, D) == getUsr(P, D).Decl2Info[AST[D].canon].usr
Info(P, D) == getUsr(P, D).Decl2Info[AST[D].canon]

(***************************************************************************)
(* getFileLID: the local index of a file handle inside one IndexFile.      *)
(***************************************************************************)
getFileLID(db, fid) ==
  IF fid \in DOMAIN db.uid2lid_and_path
    THEN [db |-> db, lid |-> db.uid2lid_and_path[fid].lid]
    ELSE IF pathFromFileEntry(fid) = ""
      THEN [db |-> [db EXCEPT !.uid2lid_and_path =
                      (fid :> [lid |-> 0, path |-> ""]) @@ @],
            lid |-> -1]
      ELSE LET n == Cardinality(DOMAIN db.uid2lid_and_path)
           IN  [db |-> [db EXCEPT !.uid2lid_and_path =
                          (fid :> [lid |-> n, path |-> pathFromFileEntry(fid)]) @@ @],
                lid |-> n]

\* addMacroUse(db, sm, usr, kind, sl): ev.spell is the spelling position and
\* ev.spellFid its file
addMacroUse(db, usr, kind, spellFid, spell) ==
  LET r == getFileLID(db, spellFid)
  IN  IF r.lid < 0
        THEN r.db
        ELSE [toEntity(r.db, kind, usr) EXCEPT
                ![MapOf(kind)][usr].uses =
                   Append(@, Use(spell, {"Dynamic"}, r.lid))]

(***************************************************************************)
(* Updates of one entity of an IndexFile.                                  *)
(***************************************************************************)
PushTop(db, kind, usr, field, v) ==
  [toEntity(db, kind, usr) EXCEPT ![MapOf(kind)][usr][field] = Append(@, v)]

PushDef(db, kind, usr, field, v) ==
  [toEntity(db, kind, usr) EXCEPT
     ![MapOf(kind)][usr].def[field] = Append(@, v)]

SetDef(db, kind, usr, field, v) ==
  [toEntity(db, kind, usr) EXCEPT ![MapOf(kind)][usr].def[field] = v]

Entity(db, kind, usr) == toEntity(db, kind, usr)[MapOf(kind)][usr]

\* the update of the IndexFile staged under file handle t
OnDb(P, t, db) == [P EXCEPT !.dbs[t] = db]

\* fromTokenRangeDefaulted(SM, Lang, OrigD->getSourceRange(), fid, loc): the
\* extent of the declaration when it lies in fid, else loc
fromTokenRangeDefaulted(OrigD, fid, loc) ==
  IF AST[OrigD].fid = fid THEN AST[OrigD].loc ELSE loc

\* getComment(OrigD)
getComment(OrigD) == AST[OrigD].comment

\* a variant of the record step that files every occurrence as a use
do_recordAsUse(db, kind, usr, OrigD, SemDC, fid, loc, role, lid, is_def, is_decl) ==
  PushTop(db, kind, usr, "uses", Use(loc, role, lid))

\* a variant of the record step that keeps a definition record already set
do_recordOnce(db, kind, usr, OrigD, SemDC, fid, loc, role, lid, is_def, is_decl) ==
  IF is_def
    THEN IF Len(toEntity(db, kind, usr)[MapOf(kind)][usr].def.spell) > 0
      THEN toEntity(db, kind, usr)
      ELSE [toEntity(db, kind, usr) EXCEPT
              ![MapOf(kind)][usr].def.spell =
                 <<DeclRef(Use(loc, role, lid),
                           fromTokenRangeDefaulted(OrigD, fid, loc))>>,
              ![MapOf(kind)][usr].def.parent_kind = getKind(SemDC, @).kind]
    ELSE IF is_decl
      THEN PushTop(db, kind, usr, "declarations",
                   DeclRef(Use(loc, role, lid),
                           fromTokenRangeDefaulted(OrigD, fid, loc)))
      ELSE PushTop(db, kind, usr, "uses", Use(loc, role, lid))

\* the generic lambda do_def_decl of handleDeclOccurence: first the record
\* of the occurrence ...
do_record(db, kind, usr, OrigD, SemDC, fid, loc, role, lid, is_def, is_decl) ==
  IF is_def
    THEN [toEntity(db, kind, usr) EXCEPT
            ![MapOf(kind)][usr].def.spell =
               <<DeclRef(Use(loc, role, lid),
                         fromTokenRangeDefaulted(OrigD, fid, loc))>>,
            ![MapOf(kind)][usr].def.parent_kind = getKind(SemDC, @).kind]
    ELSE IF is_decl
      THEN PushTop(db, kind, usr, "declarations",
                   DeclRef(Use(loc, role, lid),
                           fromTokenRangeDefaulted(OrigD, fid, loc)))
      ELSE PushTop(db, kind, usr, "uses", Use(loc, role, lid))

\* a variant in which every definition or declaration stores its comment
do_commentsLastWins(db, kind, usr, OrigD, is_def, is_decl, comments) ==
  IF ~is_def /\ ~is_decl
    THEN db
    ELSE IF comments > 0
      THEN SetDef(db, kind, usr, "comments", getComment(OrigD))
      ELSE db

\* ... then the comment, for definitions and declarations only
do_comments(db, kind, usr, OrigD, is_def, is_decl, comments) ==
  IF ~is_def /\ ~is_decl
    THEN db
    ELSE IF Entity(db, kind, usr).def.comments = "" /\ comments > 0
      THEN SetDef(db, kind, usr, "comments", getComment(OrigD))
      ELSE db

do_def_decl(db, kind, usr, OrigD, SemDC, fid, loc, role, lid, is_def, is_decl, comments) ==
  do_comments(
    do_record(db, kind, usr, OrigD, SemDC, fid, loc, role, lid, is_def, is_decl),
    kind, usr, OrigD, is_def, is_decl, comments)

\* setName / setVarName: the detailed signature rendered for D
setName(db, kind, usr, D) == SetDef(db, kind, usr, "detailed_name", AST[D].sig)

(***************************************************************************)
(* setName on the characters of the names.  Strings are sequences of       *)
(* characters indexed from 0 as in the source; Npos stands for             *)
(* std::string::npos.  `name` is the declaration as printed, after         *)
(* simplifyAnonymous and the removal of "{\n}".                            *)
(***************************************************************************)
Npos == -1
CharAt(name, i) == IF i < Len(name) THEN name[i + 1] ELSE "NUL"
isIdentifierBody(c) == c \in {"o", "p", "_", "0"}

\* name.find(pat, from)
RECURSIVE find(_, _, _)
find(name, pat, from) ==
  IF from + Len(pat) > Len(name)
    THEN Npos
    ELSE IF SubSeq(name, from + 1, from + Len(pat)) = pat
      THEN from
      ELSE find(name, pat, from + 1)

\* the loop that passes over occurrences inside longer identifiers
RECURSIVE findUnbound(_, _, _)
findUnbound(name, short_name, i) ==
  IF i # Npos
     /\ \/ (i > 0 /\ isIdentifierBody(CharAt(name, i - 1)))
        \/ isIdentifierBody(CharAt(name, i + Len(short_name)))
    THEN findUnbound(name, short_name,
                     find(name, short_name, i + Len(short_name)))
    ELSE i

\* name.replace(i, n, qualified)
replace(name, i, n, qualified) ==
  SubSeq(name, 1, i) \o qualified \o SubSeq(name, i + n + 1, Len(name))

\* the loop that computes qual_name_offset, from position i leftwards
RECURSIVE qualScan(_, _, _)
qualScan(name, i, paren) ==
  IF i = 0
    THEN 0
    ELSE IF CharAt(name, i - 1) = ")"
      THEN qualScan(name, i - 1, paren + 1)
      ELSE IF CharAt(name, i - 1) = "("
        THEN qualScan(name, i - 1, paren - 1)
        ELSE IF ~(paren > 0 \/ isIdentifierBody(CharAt(name, i - 1))
                  \/ CharAt(name, i - 1) = ":")
          THEN i
          ELSE qualScan(name, i - 1, paren)

\* setName from "if (i == std::string::npos)" on, i the position found
setNameFrom(name, short_name, qualified, i) ==
  IF i = Npos
    THEN [detailed_name |-> name, short_name_offset |-> 0,
          short_name_size |-> Len(short_name),
          qual_name_offset |-> qualScan(name, 0, 0)]
    ELSE IF Len(short_name) = 0 \/ (i >= 2 /\ CharAt(name, i - 2) = ":")
      THEN [detailed_name |-> name, short_name_offset |-> i,
            short_name_size |-> Len(short_name),
            qual_name_offset |-> qualScan(name, i, 0)]
      ELSE [detailed_name |-> replace(name, i, Len(short_name), qualified),
            short_name_offset |-> i + Len(qualified) - Len(short_name),
            short_name_size |-> Len(short_name),
            qual_name_offset |->
              qualScan(replace(name, i, Len(short_name), qualified), i, 0)]

\* setName(D, short_name, qualified, def): what it assigns to def
setNameOf(name, short_name, qualified) ==
  setNameFrom(name, short_name, qualified,
              IF Len(short_name) > 0
                THEN findUnbound(name, short_name, find(name, short_name, 0))
                ELSE find(name, short_name, 0))

(***************************************************************************)
(* Record layouts.  A layout L describes the records of a translation      *)
(* unit as the engine presents them to collectRecordMembers:               *)
(*   L.fields[RD]    RD->fields(), each field a record                     *)
(*                     id      the FieldDecl                               *)
(*                     named   FD->getIdentifier() is not null             *)
(*                     offset  Ctx->getFieldOffset(FD)                     *)
(*                     rec     the RecordDecl of the field's type, or ""   *)
(*                     bad     a non-record field type that is incomplete  *)
(*                             or dependent                                *)
(*   L.incomplete    the records with !isCompleteDefinition()              *)
(*   L.dependent     the records with isDependentType()                    *)
(*   L.invalid       the records with isInvalidDecl()                      *)
(***************************************************************************)
FieldOf(FD) ==
  [id |-> FD, named |-> AST[FD].name # "", offset |-> getFieldOffset(FD),
   rec |-> EmbeddedRecord(FD), bad |-> FALSE]

\* the layout of the translation unit AST
TULayout ==
  [fields |-> [RD \in DOMAIN AST |->
                 [i \in 1..Len(Fields(RD)) |-> FieldOf(Fields(RD)[i])]],
   incomplete |-> {RD \in DOMAIN AST : ~RecordComplete(RD)},
   dependent |-> {},
   invalid |-> {}]

\* FQT->isIncompleteType() || FQT->isDependentType() of a field's type
fieldTypeUnknown(L, I) ==
  IF I.rec # ""
    THEN I.rec \in L.incomplete \/ I.rec \in L.dependent
    ELSE I.bad

\* validateRecord(RD), from field i on: false as soon as a field's type is
\* incomplete or dependent, or the record of a field's type fails in turn
RECURSIVE validateFields(_, _, _)
validateFields(L, RD, i) ==
  IF i > Len(L.fields[RD])
    THEN TRUE
    ELSE IF fieldTypeUnknown(L, L.fields[RD][i])
      THEN FALSE
      ELSE IF L.fields[RD][i].rec # ""
              /\ ~validateFields(L, L.fields[RD][i].rec, 1)
        THEN FALSE
        ELSE validateFields(L, RD, i + 1)

validateRecord(L, RD) == validateFields(L, RD, 1)

\* validateRecord(RD) with the depth of the recursion made explicit: "true"
\* or "false" for the value returned, "overflow" when more than MaxDepth
\* calls are nested
RECURSIVE validateNested(_, _, _, _)
validateNested(L, RD, i, depth) ==
  IF depth > MaxDepth
    THEN "overflow"
    ELSE IF i > Len(L.fields[RD])
      THEN "true"
      ELSE IF fieldTypeUnknown(L, L.fields[RD][i])
        THEN "false"
        ELSE IF L.fields[RD][i].rec # ""
                /\ validateNested(L, L.fields[RD][i].rec, 1, depth + 1) # "true"
          THEN validateNested(L, L.fields[RD][i].rec, 1, depth + 1)
          ELSE validateNested(L, RD, i + 1, depth)

\* no offset can be computed for the fields of RD
offsetUnknown(L, RD) ==
  \/ RD \in L.incomplete
  \/ RD \in L.dependent
  \/ RD \in L.invalid
  \/ ~validateRecord(L, RD)

(***************************************************************************)
(* collectRecordMembers(type, RD): a stack of (record, offset) pairs and   *)
(* the set Seen; named fields are appended to type.def.vars with their     *)
(* offset (-1 once a record on the path has no known layout).              *)
(***************************************************************************)
RECURSIVE collectFields(_, _, _, _, _, _, _)
collectFields(L, found, RD, offset, i, Stack, Seen) ==
  \* found: the (FieldDecl, offset) pairs emplaced so far
  IF i > Len(L.fields[RD])
    THEN [found |-> found, Stack |-> Stack, Seen |-> Seen]
    ELSE LET FD == L.fields[RD][i]
             offset1 == IF offset < 0 THEN -1 ELSE offset + FD.offset
         IN  IF FD.named
               THEN collectFields(L, Append(found, <<FD.id, offset1>>),
                                  RD, offset, i + 1, Stack, Seen)
               ELSE IF FD.rec # "" /\ FD.rec \notin Seen
                 THEN collectFields(L, found, RD, offset, i + 1,
                                    Append(Stack, <<FD.rec, offset1>>),
                                    Seen \cup {FD.rec})
                 ELSE collectFields(L, found, RD, offset, i + 1, Stack, Seen)

poppedOffsetKept(L, RD, offset) == offset

\* the offset the fields of the popped record start from
poppedOffset(L, RD, offset) == IF offsetUnknown(L, RD) THEN -1 ELSE offset

RECURSIVE collectLoop(_, _, _, _)
collectLoop(L, found, Stack, Seen) ==
  IF Len(Stack) = 0
    THEN found
    ELSE LET top == Stack[Len(Stack)]
             r == collectFields(L, found, top[1],
                                poppedOffset(L, top[1], top[2]), 1,
                                SubSeq(Stack, 1, Len(Stack) - 1), Seen)
         IN  collectLoop(L, r.found, r.Stack, r.Seen)

\* the (FieldDecl, offset) pairs collectRecordMembers emplaces for RD
collectMembers(L, RD) == collectLoop(L, <<>>, <<<<RD, 0>>>>, {RD})

\* type.def.vars.emplace_back(getUsr(FD), offset1) for each collected field
RECURSIVE emplaceMembers(_, _, _, _)
emplaceMembers(X, found, i, n) ==
  \* X = [P, vars]: the pass state (getUsr) and the list being built
  IF i > n
    THEN X
    ELSE emplaceMembers(
           [P |-> getUsr(X.P, found[i][1]),
            vars |-> Append(X.vars, <<Usr(X.P, found[i][1]), found[i][2]>>)],
           found, i + 1, n)

collectRecordMembers(P, t, usr, RD) ==
  LET X0 == [P |-> P, vars |-> Entity(P.dbs[t], "Type", usr).def.vars]
      found == collectMembers(TULayout, RD)
      X == emplaceMembers(X0, found, 1, Len(found))
  IN  OnDb(X.P, t, SetDef(X.P.dbs[t], "Type", usr, "vars", X.vars))

(***************************************************************************)
(* handleDeclOccurence.  An event ev carries                               *)
(*   D, roles      the node and the engine's role set                      *)
(*   fid, loc      the file and range of the (expansion) location          *)
(*   spellFid, spell  the file and position of SM.getSpellingLoc(Loc);     *)
(*                 spell # loc inside a macro expansion                    *)
(*   cont          ASTNode.ContainerDC->getRedeclContext()                 *)
(* ASTNode.OrigD is the reported node itself.  The handler is written as a *)
(* chain of steps, each taking the value the previous one produced.        *)
(***************************************************************************)
is_decl(ev) == "Declaration" \in ev.roles
is_def(ev) ==
  "Definition" \in ev.roles \/ (is_decl(ev) /\ AST[ev.D].kind = "Binding")

\* SemDC and LexDC after the loops that leave anonymous namespaces
SemDC(ev) == skipAnonymous(AST[ev.D].sem)
LexDC(ev) == skipAnonymous(ev.cont)

\* a variant that runs the loop of getAdjustedDecl once
adjustedOnce(ev) ==
  IF is_def(ev) \/ AST[ev.D].adj = "" THEN ev.D ELSE AST[ev.D].adj

\* a variant that replaces the node of a non-definition by its semantic
\* container
adjustedToContainer(ev) ==
  IF is_def(ev) THEN ev.D ELSE AST[ev.D].sem

\* the node after "const Decl *D1 = getAdjustedDecl(D)" (non-definitions)
adjusted(ev) ==
  IF is_def(ev)
    THEN ev.D
    ELSE IF getAdjustedDecl(ev.D) # "" THEN getAdjustedDecl(ev.D) ELSE ev.D

\* Role::Implicit for plain uses of constructors and conversions
roleOf(ev) ==
  IF ~is_def(ev) /\ ~is_decl(ev)
     /\ AST[adjusted(ev)].kind \in {"CXXConstructor", "CXXConversion"}
    THEN ev.roles \cup {"Implicit"}
    ELSE ev.roles

\* if (Spell != Loc) addMacroUse(db, SM, usr, kind, Spell)
withMacroUse(db, ev, kind, usr) ==
  IF ev.spell # ev.loc
    THEN addMacroUse(db, usr, kind, ev.spellFid, ev.spell)
    ELSE db

\* first part of a case of the first switch: def.kind, do_def_decl, the
\* macro use
recordOccurrence(db, ev, kind, usr, role, lid, comments) ==
  withMacroUse(
    do_def_decl(SetDef(db, kind, usr, "kind", getKind(ev.D, "Unknown").kind),
                kind, usr, ev.D, SemDC(ev), ev.fid, ev.loc, role, lid,
                is_def(ev), is_decl(ev), comments),
    ev, kind, usr)

\* if (func->def.detailed_name[0] == '\0') setName(D, ...)
withName(db, kind, usr, D) ==
  IF Entity(db, kind, usr).def.detailed_name = ""
    THEN setName(db, kind, usr, D)
    ELSE db

\* a variant that takes the lexical container for declarations too
funcContainerLexical(P, t, db, ev, usr) ==
  IF is_def(ev) \/ is_decl(ev)
    THEN IF getKind(LexDC(ev), "Unknown").ret = "Type"
           THEN OnDb(getUsr(P, LexDC(ev)), t,
                     PushDef(db, "Type", Usr(P, LexDC(ev)), "funcs", usr))
           ELSE OnDb(P, t, db)
    ELSE IF getKind(LexDC(ev), "Unknown").ret = "Func"
           THEN OnDb(getUsr(P, LexDC(ev)), t,
                     PushDef(db, "Func", Usr(P, LexDC(ev)), "callees",
                             SymbolRef(ev.loc, usr, "Func", roleOf(ev))))
           ELSE OnDb(P, t, db)

\* the container edges of a function occurrence
funcContainer(P, t, db, ev, usr) ==
  IF is_def(ev) \/ is_decl(ev)
    THEN IF getKind(SemDC(ev), "Unknown").ret = "Type"
           THEN OnDb(getUsr(P, SemDC(ev)), t,
                     PushDef(db, "Type", Usr(P, SemDC(ev)), "funcs", usr))
           ELSE OnDb(P, t, db)
    ELSE IF getKind(LexDC(ev), "Unknown").ret = "Func"
           THEN OnDb(getUsr(P, LexDC(ev)), t,
                     PushDef(db, "Func", Usr(P, LexDC(ev)), "callees",
                             SymbolRef(ev.loc, usr, "Func", roleOf(ev))))
           ELSE OnDb(P, t, db)

\* case Kind::Func of the first switch
linkFunc(P, t, ev, usr, lid, comments) ==
  funcContainer(P, t,
    withName(recordOccurrence(P.dbs[t], ev, "Func", usr, roleOf(ev), lid,
                              comments),
             "Func", usr, adjusted(ev)),
    ev, usr)

\* a variant that synthesizes the detailed name of a type only while it is
\* empty
typeNameOnce(db, ev, usr, short_name) ==
  IF Entity(db, "Type", usr).def.detailed_name = "" /\ short_name # ""
    THEN IF AST[adjusted(ev)].kind = "TemplateTypeParm"
           THEN SetDef(db, "Type", usr, "detailed_name", short_name)
           ELSE setName(db, "Type", usr, ev.D)
    ELSE db

\* the detailed name of a type occurrence
typeName(db, ev, usr, short_name) ==
  IF (is_def(ev) \/ Entity(db, "Type", usr).def.detailed_name = "")
     /\ short_name # ""
    THEN IF AST[adjusted(ev)].kind = "TemplateTypeParm"
           THEN SetDef(db, "Type", usr, "detailed_name", short_name)
           ELSE setName(db, "Type", usr, ev.D)
    ELSE db

typeContainer(P, t, db, ev, usr) ==
  IF (is_def(ev) \/ is_decl(ev)) /\ getKind(SemDC(ev), "Unknown").ret = "Type"
    THEN OnDb(getUsr(P, SemDC(ev)), t,
              PushDef(db, "Type", Usr(P, SemDC(ev)), "types", usr))
    ELSE OnDb(P, t, db)

\* case Kind::Type of the first switch
linkType(P, t, ev, usr, lid, comments) ==
  typeContainer(P, t,
    typeName(recordOccurrence(P.dbs[t], ev, "Type", usr, ev.roles, lid, comments),
             ev, usr, Info(P, adjusted(ev)).short_name),
    ev, usr)

\* a variant that adds the instances back-edge for enumerators too
withInstanceAlways(db, D, usr, usr1) ==
  PushTop(db, "Type", usr1, "instances", usr)

\* the instances back-edge of the type usr1, skipped for enumerators
withInstance(db, D, usr, usr1) ==
  IF AST[D].kind = "EnumConstant"
    THEN db
    ELSE PushTop(db, "Type", usr1, "instances", usr)

\* the static type of a variable: def.type and the instances back-edge
linkVarType(P, t, D, usr) ==
  IF AST[D].builtin # 0
    THEN OnDb(P, t,
              withInstance(SetDef(P.dbs[t], "Var", usr, "type", AST[D].builtin),
                           D, usr, AST[D].builtin))
    ELSE IF getAdjustedDecl(AST[D].tdecl) = ""
      THEN P
      ELSE OnDb(getUsr(P, getAdjustedDecl(AST[D].tdecl)), t,
                withInstance(
                  SetDef(P.dbs[t], "Var", usr, "type",
                         Usr(P, getAdjustedDecl(AST[D].tdecl))),
                  D, usr, Usr(P, getAdjustedDecl(AST[D].tdecl))))

\* the container of a declared variable; k is getKind(DC, var->def.parent_kind)
varContainer(P, t, db, ev, usr, k) ==
  IF k.ret = "Func"
    THEN OnDb(getUsr(P, SemDC(ev)), t,
              PushDef(db, "Func", Usr(P, SemDC(ev)), "vars", usr))
    ELSE IF k.ret = "Type"
            /\ AST[SemDC(ev)].kind \notin
                 {"CXXRecord", "Record", "ClassTemplateSpecialization",
                  "ClassTemplatePartialSpecialization"}
      THEN OnDb(getUsr(P, SemDC(ev)), t,
                PushDef(db, "Type", Usr(P, SemDC(ev)), "vars", <<usr, -1>>))
      ELSE OnDb(P, t, db)

\* "e.g. lambda parameter": a plain use of a variable that has neither a
\* definition record nor a declaration
lambdaParameter(db, ev, D, usr, lid) ==
  IF Len(Entity(db, "Var", usr).def.spell) = 0
     /\ Len(Entity(db, "Var", usr).declarations) = 0
     /\ AST[D].fid = ev.fid
    THEN [toVar(db, usr) EXCEPT
            !.usr2var[usr].def.spell =
               <<DeclRef(Use(AST[D].loc, {"Definition"}, lid), AST[D].loc)>>,
            !.usr2var[usr].def.parent_kind = "Method"]
    ELSE db

varLinks(P, t, db, ev, usr, lid) ==
  IF is_def(ev) \/ is_decl(ev)
    THEN linkVarType(
           varContainer(P, t,
             SetDef(db, "Var", usr, "parent_kind",
                    getKind(SemDC(ev),
                            Entity(db, "Var", usr).def.parent_kind).kind),
             ev, usr,
             getKind(SemDC(ev), Entity(db, "Var", usr).def.parent_kind)),
           t, adjusted(ev), usr)
    ELSE OnDb(P, t, lambdaParameter(db, ev, adjusted(ev), usr, lid))

\* case Kind::Var of the first switch
linkVar(P, t, ev, usr, lid, comments) ==
  varLinks(P, t,
    withName(recordOccurrence(P.dbs[t], ev, "Var", usr, ev.roles, lid, comments),
             "Var", usr, adjusted(ev)),
    ev, usr, lid)

\* one push of a base edge and of its reciprocal derived edge
addBaseNoDerived(P, t, kind, usr, D1) ==
  OnDb(getUsr(P, D1), t, PushDef(P.dbs[t], kind, usr, "bases", Usr(P, D1)))

addBase(P, t, kind, usr, D1) ==
  OnDb(getUsr(P, D1), t,
       PushTop(PushDef(P.dbs[t], kind, usr, "bases", Usr(P, D1)),
               kind, Usr(P, D1), "derived", usr))

\* for (const CXXBaseSpecifier &Base : RD->bases()), each base through
\* getAdjustedDecl(getTypeDecl(Base.getType()))
RECURSIVE addBases(_, _, _, _, _)
addBases(P, t, usr, Ds, i) ==
  IF i > Len(Ds)
    THEN P
    ELSE IF getAdjustedDecl(Ds[i]) = ""
      THEN addBases(P, t, usr, Ds, i + 1)
      ELSE addBases(addBase(P, t, "Type", usr, getAdjustedDecl(Ds[i])),
                    t, usr, Ds, i + 1)

\* for (const auto *ND1 : OverDecls)
RECURSIVE addOverridden(_, _, _, _, _)
addOverridden(P, t, usr, Ds, i) ==
  IF i > Len(Ds)
    THEN P
    ELSE addOverridden(addBase(P, t, "Func", usr, Ds[i]), t, usr, Ds, i + 1)

\* case Decl::Record (and CXXRecord after its fall through)
recordCase(P, t, ev, D, usr) ==
  IF is_def(ev)
    THEN collectRecordMembers(P, t, usr, ev.D)
    ELSE P

anonName(P, t, D, usr) ==
  IF Entity(P.dbs[t], "Type", usr).def.detailed_name = ""
     /\ Info(P, D).short_name = ""
    THEN OnDb(P, t, SetDef(P.dbs[t], "Type", usr, "detailed_name", "anon struct"))
    ELSE P

\* the base edge of a specialization to what it was instantiated from
specializationBase(P, t, D, usr) ==
  IF SpecializedFrom(D) # ""
    THEN addBase(P, t, "Type", usr, SpecializedFrom(D))
    ELSE P

\* case Decl::TypeAlias / Typedef; D1 is the adjusted declaration of the
\* underlying type
aliasCase(P, t, ev, D, usr, lid, D1) ==
  IF D1 = ""
    THEN P
    ELSE OnDb(getUsr(P, D1), t,
           IF IsSpecializationType(D) /\ AST[D].fid = ev.fid
             THEN PushTop(SetDef(toType(P.dbs[t], Usr(P, D1)), "Type", usr,
                                 "alias_of", Usr(P, D1)),
                          "Type", Usr(P, D1), "uses",
                          Use(AST[D].loc, {"Reference"}, lid))
             ELSE SetDef(toType(P.dbs[t], Usr(P, D1)), "Type", usr,
                         "alias_of", Usr(P, D1)))

\* strchr(var->def.detailed_name, '=') != nullptr, over the signatures of
\* the translation unit
ContainsEquals(name) == name \in {"using td = T<int>"}
\* " = " + the value of the enumerator
InitVal(D) == " = 0"

\* the entity pointer (func, type or var) the case of the second switch for
\* declaration category dk dereferences; "" for a category without a case
linkedEntity(dk) ==
  CASE dk \in {"Namespace", "NamespaceAlias", "CXXRecord", "Record",
               "ClassTemplateSpecialization",
               "ClassTemplatePartialSpecialization",
               "TypeAlias", "Typedef", "UnresolvedUsingTypename"} -> "Type"
    [] dk = "CXXMethod" -> "Func"
    [] dk = "EnumConstant" -> "Var"
    [] OTHER -> ""

\* the second switch of handleDeclOccurence, on the kind of the adjusted node
linkByDeclKind(P, t, ev, D, usr, lid) ==
  CASE AST[D].kind = "Namespace" ->
         IF AST[D].first /\ AST[AST[D].sem].kind = "Namespace"
           THEN addBase(P, t, "Type", usr, AST[D].sem)
           ELSE P
    [] AST[D].kind = "NamespaceAlias" ->
         IF AST[D].tdecl = ""
           THEN P
           ELSE OnDb(getUsr(P, AST[D].tdecl), t,
                     SetDef(toType(P.dbs[t], Usr(P, AST[D].tdecl)), "Type", usr,
                            "alias_of", Usr(P, AST[D].tdecl)))
    [] AST[D].kind = "CXXRecord" ->
         recordCase(
           anonName(IF is_def(ev)
                      THEN addBases(P, t, usr, AST[D].bases, 1)
                      ELSE P,
                    t, D, usr),
           t, ev, D, usr)
    [] AST[D].kind = "Record" ->
         recordCase(anonName(P, t, D, usr), t, ev, D, usr)
    [] AST[D].kind \in {"ClassTemplateSpecialization",
                        "ClassTemplatePartialSpecialization"} ->
         IF is_def(ev)
           THEN specializationBase(
                  collectRecordMembers(
                    OnDb(P, t, SetDef(P.dbs[t], "Type", usr, "kind", "Class")),
                    t, usr, ev.D),
                  t, D, usr)
           ELSE OnDb(P, t, SetDef(P.dbs[t], "Type", usr, "kind", "Class"))
    [] AST[D].kind \in {"TypeAlias", "Typedef"} ->
         aliasCase(P, t, ev, D, usr, lid, getAdjustedDecl(AST[D].tdecl))
    [] AST[D].kind = "CXXMethod" ->
         IF is_def(ev) \/ is_decl(ev)
           THEN addOverridden(P, t, usr, AST[D].over, 1)
           ELSE P
    [] AST[D].kind = "EnumConstant" ->
         IF is_def(ev)
            /\ ~ContainsEquals(Entity(P.dbs[t], "Var", usr).def.detailed_name)
           THEN OnDb(P, t,
                     SetDef(P.dbs[t], "Var", usr, "hover",
                            Entity(P.dbs[t], "Var", usr).def.detailed_name
                              \o InitVal(D)))
           ELSE P
    [] OTHER -> P

\* the first switch, on the storage kind; P is the state after getUsr
linkByKind(P, t, ev, usr, lid, kind, comments) ==
  CASE kind = "Func" -> linkFunc(P, t, ev, usr, lid, comments)
    [] kind = "Type" -> linkType(P, t, ev, usr, lid, comments)
    [] kind = "Var"  -> linkVar(P, t, ev, usr, lid, comments)

\* a variant of the switch that stores a node of kind Invalid as a Type
classifiedStoresInvalid(P, t, ev, usr, lid, kind, comments) ==
  IF kind = "File"
    THEN P
    ELSE linkByDeclKind(
           linkByKind(P, t, ev, usr, lid,
                      IF kind = "Invalid" THEN "Type" ELSE kind, comments),
           t, ev, adjusted(ev), usr, lid)

\* from "Role role = ..." to the end; P is the state after getUsr(D, &info)
classified(P, t, ev, usr, lid, kind, comments) ==
  IF kind \in {"Invalid", "File"}
    THEN P
    ELSE linkByDeclKind(linkByKind(P, t, ev, usr, lid, kind, comments),
                        t, ev, adjusted(ev), usr, lid)

\* the handler once the target IndexFile t exists; r is the outcome of
\* getFileLID (or lid -1 without a call)
located(P, t, ev, r, comments) ==
  classified(getUsr(OnDb(P, t, withLanguage(r.db, ev.D)), adjusted(ev)), t, ev,
             Usr(P, adjusted(ev)), r.lid, getKind(ev.D, "Unknown").ret,
             comments)

\* a variant that computes the local-file index on the multi-version route
\* also for a location written in the main file
stagedAlwaysIndexed(P, t, ev, multi, comments) ==
  located(P, t, ev,
          IF multi
            THEN getFileLID(P.dbs[t], ev.fid)
            ELSE [db |-> P.dbs[t], lid |-> -1],
          comments)

\* after "param.seenFile(fid)" on the multi-version route
staged(P, t, ev, multi, comments) ==
  located(P, t, ev,
          IF multi /\ ev.fid # getMainFileID
            THEN getFileLID(P.dbs[t], ev.fid)
            ELSE [db |-> P.dbs[t], lid |-> -1],
          comments)

\* after db = param.consumeFile(...)
admitted(P, t, ev, multi, nl, comments) ==
  IF ~hasDb(P, t)
    THEN P
    ELSE staged(IF multi THEN seenFile(P, ev.fid, nl) ELSE P, t, ev, multi,
                comments)

\* after the evaluation of
\* g_config->index.multiVersion && param.useMultiVersion(fid)
routed(P, ev, multi, nl, comments) ==
  admitted(consumeFile(P, IF multi THEN getMainFileID ELSE ev.fid, nl),
           IF multi THEN getMainFileID ELSE ev.fid, ev, multi, nl, comments)

\* a variant of the handler without the linkage test
handleDeclOccurenceUnfiltered(P, ev, nl, cfg) ==
  IF ev.fid = 0
    THEN P
  ELSE IF cfg.multiVersion
    THEN routed(useMultiVersion(P, ev.fid, cfg.whitelist), ev,
                useMultiVersion(P, ev.fid, cfg.whitelist).uid2multi[ev.fid],
                nl, cfg.comments)
    ELSE routed(P, ev, FALSE, nl, cfg.comments)

handleDeclOccurence(P, ev, nl, cfg) ==
  IF ~nl /\ ~AST[ev.D].linkage
    THEN P
  ELSE IF ev.fid = 0
    THEN P
  ELSE IF cfg.multiVersion
    THEN routed(useMultiVersion(P, ev.fid, cfg.whitelist), ev,
                useMultiVersion(P, ev.fid, cfg.whitelist).uid2multi[ev.fid],
                nl, cfg.comments)
    ELSE routed(P, ev, FALSE, nl, cfg.comments)

(***************************************************************************)
(* IndexPPCallbacks.                                                       *)
(***************************************************************************)
\* the source text "#define ..." of the macro definition at a position
MacroHover(name, loc) ==
  CASE loc = 1 -> "#define MAX 10"
    [] OTHER   -> "#define MAX 20"

FileChanged(P, ev, nl) ==
  IF ev.reason = "EnterFile" THEN consumeFile(P, ev.fid, nl) ELSE P

InclusionDirective(P, ev, nl) ==
  IF ev.path = ""
    THEN P
    ELSE LET Pc == consumeFile(P, ev.fid, nl)
         IN  IF hasDb(Pc, ev.fid)
               THEN [Pc EXCEPT !.dbs[ev.fid].includes =
                       Append(@, <<ev.loc, ev.path>>)]
               ELSE Pc

\* a MacroDefined that moves an existing definition record to the
\* declarations and leaves the definition record empty
macroSpellMoves(db, usr, loc) ==
  [toVar(db, usr) EXCEPT
     !.usr2var[usr].def.kind = "Macro",
     !.usr2var[usr].def.parent_kind = "File",
     !.usr2var[usr].declarations =
        IF Len(toVar(db, usr).usr2var[usr].def.spell) > 0
          THEN Append(@, toVar(db, usr).usr2var[usr].def.spell[1])
          ELSE @,
     !.usr2var[usr].def.spell =
        IF Len(toVar(db, usr).usr2var[usr].def.spell) > 0
          THEN <<>>
          ELSE <<DeclRef(Use(loc, {"Definition"}, -1), loc)>>]

\* MacroDefined up to the assignment of var.def.spell
macroSpell(db, usr, loc) ==
  [toVar(db, usr) EXCEPT
     !.usr2var[usr].def.kind = "Macro",
     !.usr2var[usr].def.parent_kind = "File",
     !.usr2var[usr].declarations =
        IF Len(toVar(db, usr).usr2var[usr].def.spell) > 0
          THEN Append(@, toVar(db, usr).usr2var[usr].def.spell[1])
          ELSE @,
     !.usr2var[usr].def.spell = <<DeclRef(Use(loc, {"Definition"}, -1), loc)>>]

\* a variant that computes the name and the hover text at every definition
macroNameEveryTime(db, usr, name, loc) ==
  [db EXCEPT !.usr2var[usr].def.detailed_name = name,
             !.usr2var[usr].def.hover = MacroHover(name, loc)]

\* if (var.def.detailed_name[0] == '\0') { ... }
macroName(db, usr, name, loc) ==
  IF db.usr2var[usr].def.detailed_name = ""
    THEN [db EXCEPT !.usr2var[usr].def.detailed_name = name,
                    !.usr2var[usr].def.hover = MacroHover(name, loc)]
    ELSE db

MacroDefined(P, ev, nl) ==
  IF ~hasDb(consumeFile(P, ev.fid, nl), ev.fid)
    THEN consumeFile(P, ev.fid, nl)
    ELSE OnDb(consumeFile(P, ev.fid, nl), ev.fid,
              macroName(macroSpell(consumeFile(P, ev.fid, nl).dbs[ev.fid],
                                   getMacro(ev.D), ev.loc),
                        getMacro(ev.D), ev.D, ev.loc))

MacroExpandsRef(P, ev, nl) ==
  LET Pc == consumeFile(P, ev.fid, nl)
  IN  IF ~hasDb(Pc, ev.fid)
        THEN Pc
        ELSE OnDb(Pc, ev.fid,
                  PushTop(Pc.dbs[ev.fid], "Var", getMacro(ev.D), "uses",
                          Use(ev.loc, {"Reference"}, -1)))

MacroExpands(P, ev, nl) ==
  LET Pc == consumeFile(P, ev.fid, nl)
  IN  IF ~hasDb(Pc, ev.fid)
        THEN Pc
        ELSE OnDb(Pc, ev.fid,
                  PushTop(Pc.dbs[ev.fid], "Var", getMacro(ev.D), "uses",
                          Use(ev.loc, {"Dynamic"}, -1)))

\* ev.directive: whether the MacroDirective `ud` is present
MacroUndefined(P, ev, nl) ==
  IF ev.directive THEN MacroExpands(P, ev, nl) ELSE P

SourceRangeSkipped(P, ev, nl) ==
  IF ev.fid = 0
    THEN P
    ELSE LET Pc == consumeFile(P, ev.fid, nl)
         IN  IF hasDb(Pc, ev.fid)
               THEN [Pc EXCEPT !.dbs[ev.fid].skipped_ranges = Append(@, ev.loc)]
               ELSE Pc

\* a variant that never asks whether the file is a multi-version file
shouldSkipFunctionBodyUnstaged(P, d, nl, cfg) ==
  [P |-> consumeFile(P, AST[d].fid, nl),
   ret |-> ~hasDb(consumeFile(P, AST[d].fid, nl), AST[d].fid)]

\* SkipProcessed::shouldSkipFunctionBody(d), fid being the file of d's
\* expansion location: !(multiVersion && useMultiVersion(fid)) &&
\* !consumeFile(fid), the calls made from left to right as far as needed
shouldSkipFunctionBody(P, d, nl, cfg) ==
  IF cfg.multiVersion
     /\ useMultiVersion(P, AST[d].fid, cfg.whitelist).uid2multi[AST[d].fid]
    THEN [P |-> useMultiVersion(P, AST[d].fid, cfg.whitelist), ret |-> FALSE]
    ELSE IF cfg.multiVersion
      THEN [P |-> consumeFile(useMultiVersion(P, AST[d].fid, cfg.whitelist),
                              AST[d].fid, nl),
            ret |-> ~hasDb(consumeFile(useMultiVersion(P, AST[d].fid,
                                                       cfg.whitelist),
                                       AST[d].fid, nl), AST[d].fid)]
      ELSE [P |-> consumeFile(P, AST[d].fid, nl),
            ret |-> ~hasDb(consumeFile(P, AST[d].fid, nl), AST[d].fid)]

(***************************************************************************)
(* The events the engine may report.  All events have one record shape;    *)
(* h names the callback.                                                   *)
(***************************************************************************)
Ev(h, D, roles, fid, loc, spellFid, spell, cont, reason, path, directive) ==
  [h |-> h, D |-> D, roles |-> roles, fid |-> fid, loc |-> loc,
   spellFid |-> spellFid, spell |-> spell, cont |-> cont, reason |-> reason,
   path |-> path, directive |-> directive]

DeclEv(D, roles, fid, loc, spell, cont) ==
  Ev("handleDeclOccurence", D, roles, fid, loc, fid, spell, cont, "", "", FALSE)

\* the container of a reference written at a position of the main file:
\* position 1 lies in the body of g, position 2 at namespace scope
ContainerAt(loc) == IF loc = 1 THEN "gDef" ELSE "tu"
\* position 2 is inside a macro expansion whose token is spelled at 32
SpellingAt(loc) == IF loc = 1 THEN loc ELSE 30 + loc

DefinitionEvents ==
  {DeclEv(d, {"Declaration", "Definition"}, AST[d].fid, AST[d].loc,
          IF d = "x" THEN 30 ELSE AST[d].loc, AST[d].lex)
     : d \in {"ns2", "A", "B", "BmDef", "gDef", "x", "lv", "S", "td", "td2",
              "ec", "I2"}}

DeclarationEvents ==
  {DeclEv(d, {"Declaration"}, AST[d].fid, AST[d].loc, AST[d].loc, AST[d].lex)
     : d \in {"Bm", "g", "us", "uh", "bd"}}

ReferenceEvents ==
  {DeclEv(d, {"Reference"}, getMainFileID, l, SpellingAt(l), ContainerAt(l))
     : d \in {"g", "Bm", "x", "S", "lv", "I2"}, l \in Locs}
  \cup {DeclEv("g", {"Reference"}, 0, 1, 1, "tu")}

DeclOccurrences == DefinitionEvents \cup DeclarationEvents \cup ReferenceEvents

PPEv(h, name, fid, loc, reason, path, directive) ==
  Ev(h, name, {}, fid, loc, fid, loc, "", reason, path, directive)

FileChangedEvents ==
  {PPEv("FileChanged", "", f, 0, r, "", FALSE)
     : f \in Fids, r \in {"EnterFile", "ExitFile"}}

InclusionEvents ==
  {PPEv("InclusionDirective", "", getMainFileID, 1, "", p, FALSE)
     : p \in {"", "a.h"}}

MacroDefinedEvents ==
  {PPEv("MacroDefined", m, getMainFileID, l, "", "", FALSE)
     : m \in Macros, l \in Locs}
  \cup {PPEv("MacroDefined", m, 4, 1, "", "", FALSE) : m \in Macros}

MacroExpandsEvents ==
  {PPEv("MacroExpands", m, getMainFileID, l, "", "", FALSE)
     : m \in Macros, l \in Locs}

MacroUndefinedEvents ==
  {PPEv("MacroUndefined", m, getMainFileID, l, "", "", TRUE)
     : m \in Macros, l \in Locs}
  \cup {PPEv("MacroUndefined", m, getMainFileID, 0, "", "", FALSE)
          : m \in Macros}

SkippedEvents ==
  {PPEv("SourceRangeSkipped", "", f, 1, "", "", FALSE) : f \in {0, getMainFileID}}

\* the events whose number the event log keeps
LoggedEvents ==
  DeclOccurrences \cup MacroDefinedEvents \cup MacroExpandsEvents
    \cup MacroUndefinedEvents

\* the inputs of one pass: no_linkage, the main path as the caller spells
\* it, and g_config->index.{multiVersion, multiVersionWhitelist, comments}
PassInputs ==
  {[no_linkage |-> FALSE, main |-> "main.cc", multiVersion |-> FALSE,
    whitelist |-> {"a.h"}, comments |-> 2],
   [no_linkage |-> TRUE, main |-> "main.cc", multiVersion |-> FALSE,
    whitelist |-> {"a.h"}, comments |-> 2],
   [no_linkage |-> FALSE, main |-> "./main.cc", multiVersion |-> TRUE,
    whitelist |-> {"a.h"}, comments |-> 2],
   [no_linkage |-> TRUE, main |-> "main.cc", multiVersion |-> TRUE,
    whitelist |-> {"a.h", "main.cc"}, comments |-> 0]}

(***************************************************************************)
(* The post-pass of idx::index.                                            *)
(***************************************************************************)
uniquifyEntity(kind, e) ==
  CASE kind = "Func" -> [e EXCEPT !.derived = uniquify(@), !.uses = uniquify(@)]
    [] kind = "Type" -> [e EXCEPT !.derived = uniquify(@), !.uses = uniquify(@),
                                  !.def.bases = uniquify(@),
                                  !.def.funcs = uniquify(@)]
    [] kind = "Var"  -> [e EXCEPT !.uses = uniquify(@)]

\* "Update dependencies for the file": the loop over param.uid2file
updateDependenciesNoMain(entry, files) ==
  LET paths == {files[f].path : f \in DOMAIN files} \ {""}
      mtimeOf(p) == files[CHOOSE f \in DOMAIN files : files[f].path = p].mtime
  IN  [entry EXCEPT
         !.mtime = IF entry.path \in paths THEN mtimeOf(entry.path) ELSE @,
         !.dependencies = [p \in paths \ {entry.path} |-> mtimeOf(p)]]

\* a variant that leaves the IndexFile's own modification time alone
updateDependenciesKeepsMtime(entry, files) ==
  LET paths == {files[f].path : f \in DOMAIN files} \ {""}
      mtimeOf(p) == files[CHOOSE f \in DOMAIN files : files[f].path = p].mtime
  IN  [entry EXCEPT
         !.dependencies =
            [p \in paths \ {entry.path, entry.import_file} |-> mtimeOf(p)]]

updateDependencies(entry, files) ==
  LET paths == {files[f].path : f \in DOMAIN files} \ {""}
      mtimeOf(p) == files[CHOOSE f \in DOMAIN files : files[f].path = p].mtime
  IN  [entry EXCEPT
         !.mtime = IF entry.path \in paths THEN mtimeOf(entry.path) ELSE @,
         !.dependencies =
            [p \in paths \ {entry.path, entry.import_file} |-> mtimeOf(p)]]

\* the body of the loop over param.uid2file for one entry with an IndexFile
finalizeEntry(entry, files, main) ==
  LET e1 == [entry EXCEPT
               !.import_file = main,
               !.lid2path = {<<entry.uid2lid_and_path[f].lid,
                               entry.uid2lid_and_path[f].path>>
                               : f \in DOMAIN entry.uid2lid_and_path},
               !.uid2lid_and_path = <<>>,
               !.usr2func = [u \in DOMAIN @ |-> uniquifyEntity("Func", @[u])],
               !.usr2type = [u \in DOMAIN @ |-> uniquifyEntity("Type", @[u])],
               !.usr2var = [u \in DOMAIN @ |-> uniquifyEntity("Var", @[u])]]
  IN  updateDependencies(e1, files)

(***************************************************************************)
(* State.                                                                  *)
(***************************************************************************)
VARIABLES
  pc,         \* where idx::index stands
  ok,         \* the out-parameter ok
  result,     \* the returned IndexFiles, by the file handle that staged them
  input,      \* the inputs of the pass (an element of PassInputs)
  uid2file,   \* IndexParam::uid2file: fid -> [path, mtime]
  dbs,        \* the IndexFile of uid2file[fid].db when it is not null
  uid2multi,  \* IndexParam::uid2multi
  Decl2Info,  \* IndexParam::Decl2Info, by canonical node
  vfs,        \* the staleness cache
  generated,  \* number of generateUSRForDecl calls per canonical node
  nEvents,    \* events reported so far
  evlog,      \* how often each logged event was reported in this pass
  covered,    \* history: the stamps for which some pass returned an IndexFile
  failure,    \* history: the step of idx::index that failed in this pass
  stamped,    \* history: the results of the vfs.stamp calls made per handle
  list,       \* SpecUniquify: the list handed to uniquify
  once,       \* SpecUniquify: uniquify(list)
  twice,      \* SpecUniquify: uniquify(uniquify(list))
  upc,        \* SpecUniquify: how many times uniquify was applied
  wire,       \* SpecReflect: a location record and its written forms
  peer,       \* SpecConcurrent: the IndexParam of a second, concurrent pass
  members,    \* SpecRecords: a record layout and the members collected from it
  bodies,     \* SpecBodies: the answers of shouldSkipFunctionBody per node
  call        \* SpecKinds, SpecNames, SpecWalks: one call of a function, its
              \* arguments and its result

\* the variables of an indexing pass, and those of SpecUniquify
passVars == <<pc, ok, result, input, uid2file, dbs, uid2multi, Decl2Info, vfs,
              generated, nEvents, evlog, covered, failure, stamped>>
listVars == <<list, once, twice, upc>>
\* the variables a single pass of idx::index never touches
sideVars == <<listVars, wire, peer, members, bodies, call>>
vars == <<passVars, sideVars>>

Cur ==
  [uid2file |-> uid2file, dbs |-> dbs, uid2multi |-> uid2multi,
   Decl2Info |-> Decl2Info, vfs |-> vfs, generated |-> generated,
   stamped |-> stamped]

Commit(P) ==
  /\ uid2file' = P.uid2file
  /\ dbs' = P.dbs
  /\ uid2multi' = P.uid2multi
  /\ Decl2Info' = P.Decl2Info
  /\ vfs' = P.vfs
  /\ generated' = P.generated
  /\ stamped' = P.stamped

passState == <<uid2file, dbs, uid2multi, Decl2Info, vfs, generated, stamped>>

\* IndexParam param(*vfs, no_linkage) with empty maps
FreshPass ==
  /\ uid2file = <<>>
  /\ dbs = <<>>
  /\ uid2multi = <<>>
  /\ Decl2Info = <<>>
  /\ generated = <<>>
  /\ stamped = <<>>
  /\ evlog = <<>>

\* no list is being deduplicated
NoList ==
  /\ list = <<>>
  /\ once = <<>>
  /\ twice = <<>>
  /\ upc = 0

\* the IndexParam of a pass that has staged nothing
NewIndexParam(nl) == [uid2file |-> <<>>, dbs |-> <<>>, no_linkage |-> nl]

\* no record is being written, and no second pass runs
NoSide ==
  /\ wire = <<>>
  /\ peer = NewIndexParam(FALSE)
  /\ members = <<>>
  /\ bodies = <<>>
  /\ call = <<>>

\* idx::index is entered on an empty staleness cache
InitPass ==
  /\ pc = "start"
  /\ ok = TRUE
  /\ result = <<>>
  /\ input \in PassInputs
  /\ vfs = {}
  /\ covered = {}
  /\ failure = ""
  /\ nEvents = 0
  /\ FreshPass
  /\ NoList

Init ==
  /\ InitPass
  /\ NoSide

(***************************************************************************)
(* idx::index.                                                             *)
(***************************************************************************)
\* a variant that clears ok before the invocation is tested
BuildInvocationClearsFirst ==
  /\ pc = "start"
  /\ \E built \in BOOLEAN :
       IF built
         THEN pc' = "target" /\ ok' = FALSE /\ failure' = failure
         ELSE pc' = "done" /\ ok' = FALSE /\ failure' = "invocation"
  /\ UNCHANGED <<result, input, passState, nEvents, evlog, covered, sideVars>>

\* buildCompilerInvocation: a null invocation returns {} with ok still true
BuildInvocation ==
  /\ pc = "start"
  /\ \E built \in BOOLEAN :
       IF built
         THEN pc' = "target" /\ ok' = FALSE /\ failure' = failure
         ELSE pc' = "done" /\ ok' = ok /\ failure' = "invocation"
  /\ UNCHANGED <<result, input, passState, nEvents, evlog, covered, sideVars>>

\* Clang->setTarget; without a target idx::index returns {}
CreateTarget ==
  /\ pc = "target"
  /\ \E hasTarget \in BOOLEAN :
       /\ pc' = IF hasTarget THEN "begin" ELSE "done"
       /\ failure' = IF hasTarget THEN failure ELSE "target"
  /\ UNCHANGED <<ok, result, input, passState, nEvents, evlog, covered, sideVars>>

\* Action->BeginSourceFile inside the lambda `parse`
BeginSourceFile ==
  /\ pc = "begin"
  /\ \E begun \in BOOLEAN :
       /\ pc' = IF begun THEN "exec" ELSE "parsed"
       /\ failure' = IF begun THEN failure ELSE "begin"
  /\ UNCHANGED <<ok, result, input, passState, nEvents, evlog, covered, sideVars>>

\* the engine reports one event while Action->Execute() runs; P is the pass
\* state the callback leaves
Report(ev, P) ==
  /\ nEvents' = nEvents + 1
  /\ evlog' = IF ev \in LoggedEvents THEN Bump(evlog, ev) ELSE evlog
  /\ Commit(P)
  /\ UNCHANGED <<pc, ok, result, input, covered, failure, sideVars>>

DeclOccurrence ==
  /\ pc = "exec"
  /\ nEvents < MaxEvents
  /\ \E ev \in DeclOccurrences :
       Report(ev, handleDeclOccurence(Cur, ev, input.no_linkage, input))

PPFileChanged ==
  /\ pc = "exec"
  /\ nEvents < MaxEvents
  /\ \E ev \in FileChangedEvents :
       Report(ev, FileChanged(Cur, ev, input.no_linkage))

PPInclusionDirective ==
  /\ pc = "exec"
  /\ nEvents < MaxEvents
  /\ \E ev \in InclusionEvents :
       Report(ev, InclusionDirective(Cur, ev, input.no_linkage))

PPMacroDefined ==
  /\ pc = "exec"
  /\ nEvents < MaxEvents
  /\ \E ev \in MacroDefinedEvents :
       Report(ev, MacroDefined(Cur, ev, input.no_linkage))

PPMacroExpands ==
  /\ pc = "exec"
  /\ nEvents < MaxEvents
  /\ \E ev \in MacroExpandsEvents :
       Report(ev, MacroExpands(Cur, ev, input.no_linkage))

PPMacroUndefined ==
  /\ pc = "exec"
  /\ nEvents < MaxEvents
  /\ \E ev \in MacroUndefinedEvents :
       Report(ev, MacroUndefined(Cur, ev, input.no_linkage))

PPSourceRangeSkipped ==
  /\ pc = "exec"
  /\ nEvents < MaxEvents
  /\ \E ev \in SkippedEvents :
       Report(ev, SourceRangeSkipped(Cur, ev, input.no_linkage))

\* Action->Execute() returns an error: `parse` returns with ok still false
ExecuteFails ==
  /\ pc = "exec"
  /\ pc' = "parsed"
  /\ failure' = "execute"
  /\ UNCHANGED <<ok, result, input, passState, nEvents, evlog, covered, sideVars>>

\* Action->Execute() succeeds
ExecuteSucceeds ==
  /\ pc = "exec"
  /\ pc' = "end"
  /\ UNCHANGED <<ok, result, input, passState, nEvents, evlog, covered, failure, sideVars>>

\* Action->EndSourceFile(); ok = true
EndSourceFile ==
  /\ pc = "end"
  /\ pc' = "parsed"
  /\ ok' = TRUE
  /\ UNCHANGED <<result, input, passState, nEvents, evlog, covered, failure, sideVars>>

\* a fault inside CRC.RunSafely(parse): "clang crashed", return {}
Crash ==
  /\ pc \in {"begin", "exec", "end"}
  /\ pc' = "done"
  /\ result' = <<>>
  /\ failure' = "crash"
  /\ UNCHANGED <<ok, input, passState, nEvents, evlog, covered, sideVars>>

\* a failure return that hands out what was staged
ReturnFailureStaged ==
  /\ pc = "parsed"
  /\ ~ok
  /\ pc' = "done"
  /\ result' = dbs
  /\ UNCHANGED <<ok, input, passState, nEvents, evlog, covered, failure, sideVars>>

\* if (!ok) { "failed to index"; return {}; }
ReturnFailure ==
  /\ pc = "parsed"
  /\ ~ok
  /\ pc' = "done"
  /\ result' = <<>>
  /\ UNCHANGED <<ok, input, passState, nEvents, evlog, covered, failure, sideVars>>

\* a loop that leaves out the IndexFile of the main file
finalizeAllButMain(files, entries, main) ==
  [f \in DOMAIN entries \ {getMainFileID} |->
     finalizeEntry(entries[f], files, main)]

\* the loop over param.uid2file that builds `result`
finalizeAll(files, entries, main) ==
  [f \in DOMAIN entries |-> finalizeEntry(entries[f], files, main)]

\* the stamp under which seenFile admitted an IndexFile
stampOf(entry) ==
  <<entry.path, ModificationTime(entry.path), modeTag(entry.no_linkage)>>

Finalize ==
  /\ pc = "parsed"
  /\ ok
  /\ pc' = "done"
  /\ result' = finalizeAll(uid2file, dbs, input.main)
  /\ dbs' = <<>>
  /\ covered' = covered \cup {stampOf(dbs[f]) : f \in DOMAIN dbs}
  /\ UNCHANGED <<ok, input, uid2file, uid2multi, Decl2Info, vfs, generated,
                 stamped, nEvents, evlog, failure, sideVars>>

Next ==
  \/ BuildInvocation
  \/ CreateTarget
  \/ BeginSourceFile
  \/ DeclOccurrence
  \/ PPFileChanged
  \/ PPInclusionDirective
  \/ PPMacroDefined
  \/ PPMacroExpands
  \/ PPMacroUndefined
  \/ PPSourceRangeSkipped
  \/ ExecuteFails
  \/ ExecuteSucceeds
  \/ EndSourceFile
  \/ Crash
  \/ ReturnFailure
  \/ Finalize

\* one call of idx::index on an empty staleness cache
Spec == Init /\ [][Next]_vars

(***************************************************************************)
(* Several passes sharing the staleness cache: the caller invokes          *)
(* idx::index again once a pass has returned.  MaxEvents bounds the events *)
(* of all passes together.                                                 *)
(***************************************************************************)
NextPass ==
  /\ pc = "done"
  /\ pc' = "start"
  /\ ok' = TRUE
  /\ result' = <<>>
  /\ input' \in PassInputs
  /\ uid2file' = <<>>
  /\ dbs' = <<>>
  /\ uid2multi' = <<>>
  /\ Decl2Info' = <<>>
  /\ generated' = <<>>
  /\ stamped' = <<>>
  /\ evlog' = <<>>
  /\ failure' = ""
  /\ UNCHANGED <<vfs, covered, nEvents, sideVars>>

NextPasses ==
  \/ Next
  \/ NextPass

SpecPasses == Init /\ [][NextPasses]_vars

(***************************************************************************)
(* Two passes running concurrently on one staleness cache.  The second     *)
(* pass is its IndexParam, peer; its engine enters files while the first   *)
(* pass runs, and every admission is one call of seenFile.                 *)
(***************************************************************************)
\* the pass state seenFile works on in the second pass
PeerParam ==
  [uid2file |-> peer.uid2file, dbs |-> peer.dbs, uid2multi |-> <<>>,
   Decl2Info |-> <<>>, vfs |-> vfs, generated |-> <<>>, stamped |-> <<>>]

PeerAdmits(P) ==
  /\ peer' = [peer EXCEPT !.uid2file = P.uid2file, !.dbs = P.dbs]
  /\ vfs' = P.vfs
  /\ P.uid2file # peer.uid2file
  /\ UNCHANGED <<pc, ok, result, input, uid2file, dbs, uid2multi, Decl2Info,
                 generated, nEvents, evlog, covered, failure, stamped,
                 listVars, wire, members, bodies, call>>

\* IndexPPCallbacks::FileChanged in the second pass
PeerFileChanged ==
  \E ev \in FileChangedEvents :
    PeerAdmits(FileChanged(PeerParam, ev, peer.no_linkage))

InitConcurrent ==
  /\ InitPass
  /\ wire = <<>>
  /\ members = <<>>
  /\ bodies = <<>>
  /\ call = <<>>
  /\ \E nl \in BOOLEAN : peer = NewIndexParam(nl)

NextConcurrent ==
  \/ BuildInvocation
  \/ CreateTarget
  \/ BeginSourceFile
  \/ PPFileChanged
  \/ PPInclusionDirective
  \/ ExecuteSucceeds
  \/ EndSourceFile
  \/ Finalize
  \/ PeerFileChanged

SpecConcurrent == InitConcurrent /\ [][NextConcurrent]_vars

(***************************************************************************)
(* uniquify on its own: every list of at most MaxLen elements.             *)
(***************************************************************************)
Elems == {1, 2, 3}
Lists == UNION {[1..n -> Elems] : n \in 0..MaxLen}

InitUniquify ==
  /\ pc = "done"
  /\ ok = TRUE
  /\ result = <<>>
  /\ input = CHOOSE i \in PassInputs : ~i.no_linkage /\ ~i.multiVersion
  /\ vfs = {}
  /\ covered = {}
  /\ failure = ""
  /\ nEvents = 0
  /\ FreshPass
  /\ list \in Lists
  /\ once = <<>>
  /\ twice = <<>>
  /\ upc = 0
  /\ NoSide

\* uniquify(a)
Uniquify ==
  /\ upc = 0
  /\ once' = uniquify(list)
  /\ upc' = 1
  /\ UNCHANGED <<passVars, list, twice, wire, peer, members, bodies, call>>

\* uniquify(a) once more on the list the first call left
UniquifyAgain ==
  /\ upc = 1
  /\ twice' = uniquify(once)
  /\ upc' = 2
  /\ UNCHANGED <<passVars, list, once, wire, peer, members, bodies, call>>

NextUniquify ==
  \/ Uniquify
  \/ UniquifyAgain

SpecUniquify == InitUniquify /\ [][NextUniquify]_vars

(***************************************************************************)
(* Properties.                                                             *)
(***************************************************************************)
Elts(s) == {s[i] : i \in 1..Len(s)}
NoDup(s) == \A i, j \in 1..Len(s) : s[i] = s[j] => i = j

\* the IndexFiles a pass holds: staged ones and returned ones
Staged == {dbs[f] : f \in DOMAIN dbs}
Returned == {result[f] : f \in DOMAIN result}

\* the relationship lists of an entity of the given storage kind: derived,
\* uses, bases and the lists of contained functions, types and variables
RelationLists(kind, e) ==
  CASE kind = "Func" -> <<e.derived, e.uses, e.def.bases, e.def.vars>>
    [] kind = "Type" -> <<e.derived, e.uses, e.def.bases, e.def.funcs,
                          e.def.types, e.def.vars>>
    [] kind = "Var"  -> <<e.uses>>

Kinds == {"Func", "Type", "Var"}

\* C1: in every IndexFile idx::index returns, no relationship list of any
\* entity (derived, uses, bases, contained functions, types and variables)
\* holds the same element twice.
C1_NoRelationshipListHasDuplicates ==
  \A db \in Returned : \A kind \in Kinds :
    \A u \in DOMAIN db[MapOf(kind)] :
      \A i \in DOMAIN RelationLists(kind, db[MapOf(kind)][u]) :
        NoDup(RelationLists(kind, db[MapOf(kind)][u])[i])

\* position of the first occurrence of x in a
firstIndex(a, x) == CHOOSE i \in 1..Len(a) : a[i] = x /\ \A j \in 1..(i - 1) : a[j] # x

\* C2: uniquify(a) holds each distinct element of a exactly once, in the
\* order of first occurrence in a, and applying uniquify to the outcome
\* gives the outcome again.
C2_UniquifyKeepsFirstOccurrencesAndIsIdempotent ==
  /\ upc >= 1 =>
       /\ Elts(once) = Elts(list)
       /\ NoDup(once)
       /\ \A i, j \in 1..Len(once) :
            i < j => firstIndex(list, once[i]) < firstIndex(list, once[j])
  /\ upc = 2 => twice = once

\* a list with repeated elements, some of them not adjacent, went through
\* uniquify twice
C2_Witness ==
  /\ upc = 2
  /\ Len(list) = MaxLen
  /\ Len(once) = 2
  /\ list[1] = list[3]
  /\ list[1] # list[2]

\* C3: the dependency map of every returned IndexFile holds neither the
\* IndexFile's own path nor the main input path passed to idx::index.
C3_DependenciesExcludeOwnAndMainPath ==
  \A db \in Returned :
    /\ db.path \notin DOMAIN db.dependencies
    /\ input.main \notin DOMAIN db.dependencies

\* a pass returned the IndexFiles of the main file and of a header, the
\* header's map being non-empty only for other files
C3_Witness ==
  /\ pc = "done"
  /\ \E f, g \in DOMAIN result :
       /\ result[f].path = input.main
       /\ result[g].path # input.main
       /\ DOMAIN result[f].dependencies = {result[g].path}
       /\ DOMAIN result[g].dependencies = {}

\* the record lists of an entity
RecordLists(e) ==
  <<e.declarations, e.uses, e.derived, e.instances, e.def.bases, e.def.funcs,
    e.def.types, e.def.vars, e.def.callees>>

IsPrefix(s, t) == Len(s) <= Len(t) /\ SubSeq(t, 1, Len(s)) = s

C4_KeyIsUsr ==
  \A db \in Staged \cup Returned : \A kind \in Kinds :
    \A u \in DOMAIN db[MapOf(kind)] : db[MapOf(kind)][u].usr = u

C4_NoReset ==
  pc' = "exec" =>
    \A f \in DOMAIN dbs : \A kind \in Kinds :
      \A u \in DOMAIN dbs[f][MapOf(kind)] :
        /\ f \in DOMAIN dbs'
        /\ u \in DOMAIN dbs'[f][MapOf(kind)]
        /\ \A i \in 1..Len(RecordLists(DefaultEntity)) :
             IsPrefix(RecordLists(dbs[f][MapOf(kind)][u])[i],
                      RecordLists(dbs'[f][MapOf(kind)][u])[i])

\* C4: each of the three maps of an IndexFile holds one entity per key, the
\* stored usr of every entity is its key, and a later toFunc/toType/toVar
\* with a key already present keeps the entity: while the engine reports
\* events, every record list of an existing entity keeps what it held.
C4_EntitiesAreKeyedAndKept == []C4_KeyIsUsr /\ [][C4_NoReset]_vars

\* an entity that already held a declaration record was looked up again and
\* got a use record
C4_Witness ==
  \E f \in DOMAIN dbs : \E u \in DOMAIN dbs[f].usr2func :
    /\ Len(dbs[f].usr2func[u].declarations) = 1
    /\ Len(dbs[f].usr2func[u].uses) = 1
    /\ Len(dbs[f].usr2func[u].def.spell) = 1

\* the IndexFile an occurrence is routed to
routeOf(ev) ==
  IF input.multiVersion /\ pathFromFileEntry(ev.fid) # ""
     /\ multiVersionMatches(input.whitelist, pathFromFileEntry(ev.fid))
    THEN getMainFileID
    ELSE ev.fid

\* the entity of a storage kind under key u in the IndexFile staged under t
\* in the map D of staged IndexFiles; a fresh entity if there is none
EntityAt(D, t, kind, u) ==
  IF t \in DOMAIN D /\ u \in DOMAIN D[t][MapOf(kind)]
    THEN D[t][MapOf(kind)][u]
    ELSE [DefaultEntity EXCEPT !.usr = u]

\* this step reports the occurrence ev, and the handler records it: ev
\* passes the linkage filter, lies in a valid file whose IndexFile exists,
\* and its node is stored as a Func, a Type or a Var
Recorded(ev) ==
  /\ Count(evlog', ev) = Count(evlog, ev) + 1
  /\ input.no_linkage \/ AST[ev.D].linkage
  /\ ev.fid # 0
  /\ routeOf(ev) \in DOMAIN dbs'
  /\ getKind(ev.D, "Unknown").ret \in Kinds

KeyOf(D) == hashUsr(generateUSRForDecl(AST[D].canon))

\* the number of use records the macro spelling adds
macroUses(ev) == IF ev.spell # ev.loc THEN 1 ELSE 0

C5_Step(ev) ==
  Recorded(ev) =>
    LET kind == getKind(ev.D, "Unknown").ret
        u == KeyOf(adjusted(ev))
        before == EntityAt(dbs, routeOf(ev), kind, u)
        after == EntityAt(dbs', routeOf(ev), kind, u)
    IN  /\ u \in DOMAIN dbs'[routeOf(ev)][MapOf(kind)]
        /\ IF is_def(ev)
             THEN /\ Len(after.def.spell) = 1
                  /\ after.declarations = before.declarations
                  /\ Len(after.uses) = Len(before.uses) + macroUses(ev)
             ELSE IF is_decl(ev)
               THEN /\ Len(after.declarations) = Len(before.declarations) + 1
                    /\ after.def.spell = before.def.spell
                    /\ Len(after.uses) = Len(before.uses) + macroUses(ev)
               ELSE /\ Len(after.uses) = Len(before.uses) + 1 + macroUses(ev)
                    /\ after.declarations = before.declarations

C5_StatedStep(ev) ==
  Recorded(ev) =>
    LET kind == getKind(ev.D, "Unknown").ret
        u == KeyOf(ev.D)
        before == EntityAt(dbs, routeOf(ev), kind, u)
        after == EntityAt(dbs', routeOf(ev), kind, u)
    IN  /\ u \in DOMAIN dbs'[routeOf(ev)][MapOf(kind)]
        /\ IF "Definition" \in ev.roles
             THEN /\ Len(after.def.spell) = 1
                  /\ after.declarations = before.declarations
             ELSE IF "Declaration" \in ev.roles
               THEN Len(after.declarations) = Len(before.declarations) + 1
               ELSE Len(after.uses) = Len(before.uses) + 1

C6_SameKeyAndNames ==
  \A D1, D2 \in Decls :
    AST[D1].canon = AST[D2].canon =>
      /\ Usr(Cur, D1) = Usr(Cur, D2)
      /\ Info(Cur, D1) = Info(Cur, D2)

C6_ComputedOnce == \A c \in DOMAIN generated : generated[c] <= 1

C6_CacheKept ==
  \A c \in DOMAIN Decl2Info :
    c \in DOMAIN Decl2Info' /\ Decl2Info'[c] = Decl2Info[c]

\* C6: within one pass getUsr returns the same key and the same short and
\* qualified names for all nodes with the same canonical declaration; key and
\* names are computed on the first lookup of the canonical node only, and no
\* later lookup modifies a cached record.
C6_GetUsrStableAndComputedOnce ==
  [](C6_SameKeyAndNames /\ C6_ComputedOnce) /\ [][C6_CacheKept]_vars

\* two nodes of one canonical declaration (the declaration and the
\* out-of-line definition of B::m) were both looked up
C6_Witness ==
  /\ "Bm" \in DOMAIN Decl2Info
  /\ Count(generated, "Bm") = 1
  /\ \E e1, e2 \in DOMAIN evlog : e1.D = "Bm" /\ e2.D = "BmDef"
  /\ \E f \in DOMAIN dbs :
       /\ KeyOf("Bm") \in DOMAIN dbs[f].usr2func
       /\ Len(dbs[f].usr2func[KeyOf("Bm")].declarations) = 1
       /\ Len(dbs[f].usr2func[KeyOf("Bm")].def.spell) = 1

\* base and derived edges of the entities of one storage kind in one
\* IndexFile answer each other
Reciprocal(m) ==
  /\ \A k \in DOMAIN m : \A u \in Elts(m[k].def.bases) :
       u \in DOMAIN m /\ k \in Elts(m[u].derived)
  /\ \A u \in DOMAIN m : \A k \in Elts(m[u].derived) :
       k \in DOMAIN m /\ u \in Elts(m[k].def.bases)

\* C7: in every state of a pass and in every returned IndexFile, u is in
\* the bases of the Type (Func) entity k iff k is in the derived list of the
\* Type (Func) entity u of the same IndexFile.
C7_BasesAndDerivedAreReciprocal ==
  \A db \in Staged \cup Returned :
    Reciprocal(db.usr2type) /\ Reciprocal(db.usr2func)

\* a returned IndexFile holds the class edge B -> A and the method edge
\* B::m -> A::m with their reciprocal edges
C7_Witness ==
  \E db \in Returned :
    /\ KeyOf("B") \in DOMAIN db.usr2type
    /\ KeyOf("A") \in Elts(db.usr2type[KeyOf("B")].def.bases)
    /\ KeyOf("Bm") \in DOMAIN db.usr2func
    /\ KeyOf("Am") \in Elts(db.usr2func[KeyOf("Bm")].def.bases)
    /\ KeyOf("Bm") \in Elts(db.usr2func[KeyOf("Am")].derived)

\* the reported definitions of macro m in the main file, and the reported
\* expansions and undefinitions with a directive
definitionsOf(m) ==
  {e \in DOMAIN evlog : e.h = "MacroDefined" /\ e.D = m /\ e.fid = getMainFileID}
usesOf(m) ==
  {e \in DOMAIN evlog :
     /\ e.D = m
     /\ e.fid = getMainFileID
     /\ e.h = "MacroExpands" \/ (e.h = "MacroUndefined" /\ e.directive)}

\* m was defined once and expanded or undefined at distinct locations
definedOnceUsedApart(m) ==
  /\ Cardinality(definitionsOf(m)) = 1
  /\ \A e \in definitionsOf(m) \cup usesOf(m) : evlog[e] = 1
  /\ \A e1, e2 \in usesOf(m) : e1.loc = e2.loc => e1 = e2

\* C8: for a macro defined once and expanded or undefined k times at
\* distinct locations of the admitted main file, the returned IndexFile has
\* one Var entity under the macro key: kind Macro, parent kind File, a
\* definition record, no declaration record, and exactly k use records, all
\* with role Dynamic and at the locations of the tokens; an undefinition
\* without directive records nothing.
C8_MacroEntity ==
  \A m \in Macros :
    (pc = "done" /\ ok /\ definedOnceUsedApart(m)) =>
      /\ getMainFileID \in DOMAIN result
      /\ getMacro(m) \in DOMAIN result[getMainFileID].usr2var
      /\ LET var == result[getMainFileID].usr2var[getMacro(m)]
         IN  /\ var.usr = getMacro(m)
             /\ var.def.kind = "Macro"
             /\ var.def.parent_kind = "File"
             /\ Len(var.def.spell) = 1
             /\ var.declarations = <<>>
             /\ Len(var.uses) = Cardinality(usesOf(m))
             /\ \A i \in 1..Len(var.uses) : var.uses[i].role = {"Dynamic"}
             /\ {var.uses[i].range : i \in 1..Len(var.uses)} =
                  {e.loc : e \in usesOf(m)}

\* a macro was defined once, expanded once, undefined once without
\* directive, and the pass returned
C8_Witness ==
  /\ pc = "done"
  /\ ok
  /\ definedOnceUsedApart("MAX")
  /\ Cardinality(usesOf("MAX")) = 1
  /\ \E e \in DOMAIN evlog : e.h = "MacroUndefined" /\ ~e.directive
  /\ getMainFileID \in DOMAIN result

\* C9: when idx::index returns with ok = false (a crash inside the crash
\* barrier, a failed BeginSourceFile or a failed Execute) the returned
\* collection is empty whatever was staged; ok is false from the built
\* invocation until EndSourceFile has completed, and a non-empty collection
\* is returned only with ok = true.
C9_FailureReturnsNothing ==
  /\ (pc = "done" /\ ~ok) => result = <<>>
  /\ pc \in {"target", "begin", "exec", "end"} => (~ok /\ result = <<>>)
  /\ result # <<>> => (pc = "done" /\ ok)

\* a pass that had staged and populated an IndexFile returned with ok = false
C9_Witness ==
  /\ pc = "done"
  /\ ~ok
  /\ result = <<>>
  /\ \E f \in DOMAIN dbs : DOMAIN dbs[f].usr2func # {}
  /\ nEvents > 0

\* the stamp seenFile hands to the staleness cache for a staged file
stampOfFile(file) == <<file.path, file.mtime, modeTag(input.no_linkage)>>

\* C10: a pass that ends in failure leaves the staleness cache as it was:
\* whenever a pass is denied the IndexFile of a file it has seen, an
\* IndexFile of that file was admitted earlier in this pass or returned by a
\* pass before it, so no file for which a failed pass returned nothing is
\* taken as already covered.
C10_FailedPassLeavesAdmissionUnchanged ==
  pc \in {"exec", "end", "parsed"} =>
    \A fid \in DOMAIN uid2file :
      (uid2file[fid].path # "" /\ fid \notin DOMAIN dbs) =>
        \/ stampOfFile(uid2file[fid]) \in covered
        \/ \E g \in DOMAIN dbs : dbs[g].path = uid2file[fid].path


\* the steps of idx::index that can fail before the engine runs, and those
\* that fail while or after it runs
SetupFailures == {"invocation", "target", "begin"}
EngineFailures == {"execute", "crash"}

\* C11 (as amended): idx::index returns ok = false for an engine crash, a
\* failed Execute, a source file that cannot be begun and a target that
\* cannot be created; only an invocation that cannot be built returns the
\* empty result with ok = true; a pass without failure returns ok = true.
C11_OnlyAMissingInvocationIsNotApplicable ==
  pc = "done" =>
    /\ failure = "invocation" => (ok /\ result = <<>>)
    /\ failure \in {"target", "begin", "execute", "crash"} =>
         (~ok /\ result = <<>>)
    /\ failure = "" => ok

\* idx::index returned because the target could not be created
C11_Witness ==
  /\ pc = "done"
  /\ failure = "target"
  /\ ~ok
  /\ result = <<>>

\* C11 (as stated): ok = false is reported only for an engine crash or a
\* failed Execute; every setup failure (invocation, target, begin) returns
\* the empty result with ok = true.
C11_AsStated ==
  pc = "done" =>
    /\ ~ok => failure \in EngineFailures
    /\ failure \in SetupFailures => (ok /\ result = <<>>)


(***************************************************************************)
(* Serializer.  A string is a sequence of characters; a 64-bit unsigned    *)
(* value is a sequence of four 16-bit limbs, most significant first, so    *)
(* that a symbol key keeps its full width.                                 *)
(***************************************************************************)
Limb == 2^16
Zero64 == <<0, 0, 0, 0>>
Max64 == <<Limb - 1, Limb - 1, Limb - 1, Limb - 1>>

DigitChars == <<"0", "1", "2", "3", "4", "5", "6", "7", "8", "9">>
IsDigit(c) == \E d \in 0..9 : DigitChars[d + 1] = c
DigitOf(c) == CHOOSE d \in 0..9 : DigitChars[d + 1] = c

\* quotient and remainder of a 64-bit value divided by ten
DivMod10(l) ==
  LET x2 == (l[1] % 10) * Limb + l[2]
      x3 == (x2 % 10) * Limb + l[3]
      x4 == (x3 % 10) * Limb + l[4]
  IN  [q |-> <<l[1] \div 10, x2 \div 10, x3 \div 10, x4 \div 10>>,
       r |-> x4 % 10]

\* l * 10 + d in 64 bits, with the carry out of the top limb
MulAdd10(l, d) ==
  LET x4 == l[4] * 10 + d
      x3 == l[3] * 10 + (x4 \div Limb)
      x2 == l[2] * 10 + (x3 \div Limb)
      x1 == l[1] * 10 + (x2 \div Limb)
  IN  [v |-> <<x1 % Limb, x2 % Limb, x3 % Limb, x4 % Limb>>,
       carry |-> x1 \div Limb]

\* two's complement negation in 64 bits
RECURSIVE Neg64From(_, _)
Neg64From(l, i) ==
  IF i = 0 THEN l
  ELSE IF l[i] = 0 THEN Neg64From(l, i - 1)
  ELSE [k \in 1..4 |-> IF k < i THEN Limb - 1 - l[k]
                       ELSE IF k = i THEN Limb - l[k] ELSE 0]
Neg64(l) == Neg64From(l, 4)

\* snprintf "%" PRIu64
RECURSIVE U64Digits(_)
U64Digits(l) ==
  IF l = Zero64 THEN <<>>
  ELSE Append(U64Digits(DivMod10(l).q), DigitChars[DivMod10(l).r + 1])
PrintU64(l) == IF l = Zero64 THEN <<"0">> ELSE U64Digits(l)

\* snprintf "%d"
RECURSIVE IntDigits(_)
IntDigits(n) ==
  IF n < 10 THEN <<DigitChars[n + 1]>>
  ELSE Append(IntDigits(n \div 10), DigitChars[(n % 10) + 1])
PrintInt(n) == IF n < 0 THEN <<"-">> \o IntDigits(-n) ELSE IntDigits(n)

\* the digits a strtol / strtoull call consumes from position i of s: the
\* magnitude (saturated at 2^64 - 1) and the position after the last digit
RECURSIVE ScanDigits(_, _, _, _)
ScanDigits(s, i, acc, sat) ==
  IF i > Len(s) \/ ~IsDigit(s[i])
    THEN [mag |-> IF sat THEN Max64 ELSE acc, sat |-> sat, end |-> i]
    ELSE ScanDigits(s, i + 1, MulAdd10(acc, DigitOf(s[i])).v,
                    sat \/ MulAdd10(acc, DigitOf(s[i])).carry > 0)

\* sign, magnitude and end position of the number at position i of s
ScanNumber(s, i) ==
  IF i <= Len(s) /\ s[i] = "-"
    THEN [neg |-> TRUE, mag |-> ScanDigits(s, i + 1, Zero64, FALSE).mag,
          sat |-> ScanDigits(s, i + 1, Zero64, FALSE).sat,
          end |-> ScanDigits(s, i + 1, Zero64, FALSE).end]
    ELSE [neg |-> FALSE, mag |-> ScanDigits(s, i, Zero64, FALSE).mag,
          sat |-> ScanDigits(s, i, Zero64, FALSE).sat,
          end |-> ScanDigits(s, i, Zero64, FALSE).end]


\* strtoull(s + i, &end, 10)
strtoull(s, i) ==
  IF ScanNumber(s, i).sat THEN [v |-> Max64, end |-> ScanNumber(s, i).end]
  ELSE IF ScanNumber(s, i).neg
    THEN [v |-> Neg64(ScanNumber(s, i).mag), end |-> ScanNumber(s, i).end]
    ELSE [v |-> ScanNumber(s, i).mag, end |-> ScanNumber(s, i).end]

\* strtol(s + i, &end, 10): the long result in two's complement, saturated
\* at LONG_MAX and LONG_MIN
strtol(s, i) ==
  IF ScanNumber(s, i).neg
    THEN [v |-> IF ScanNumber(s, i).mag[1] >= 2^15
                  THEN <<2^15, 0, 0, 0>>
                  ELSE Neg64(ScanNumber(s, i).mag),
          end |-> ScanNumber(s, i).end]
    ELSE [v |-> IF ScanNumber(s, i).mag[1] >= 2^15
                  THEN <<2^15 - 1, Limb - 1, Limb - 1, Limb - 1>>
                  ELSE ScanNumber(s, i).mag,
          end |-> ScanNumber(s, i).end]

\* static_cast<int>, static_cast<Role> (16 bits) and static_cast<Kind>
\* (8 bits) of a long
ToInt(l) ==
  IF l[3] >= 2^15 THEN (l[3] - Limb) * Limb + l[4] ELSE l[3] * Limb + l[4]
ToRole(l) == l[4]
ToKind(l) == l[4] % 2^8

\* strchr(s + i, c): the position of the first c at or after i; 0 stands for
\* the null pointer
strchr(s, i, c) ==
  IF \E j \in i..Len(s) : s[j] = c
    THEN CHOOSE j \in i..Len(s) : s[j] = c /\ \A k \in i..(j - 1) : s[k] # c
    ELSE 0

\* Range::toString: "line:column-line:column", lines and columns one-based
Pos(line, column) == [line |-> line, column |-> column]
Range(start, end) == [start |-> start, end |-> end]
RangeToString(r) ==
  PrintInt(r.start.line + 1) \o <<":">> \o PrintInt(r.start.column + 1)
  \o <<"-">> \o PrintInt(r.end.line + 1) \o <<":">> \o PrintInt(r.end.column + 1)

\* Pos::fromString at position i: [pos, end]
PosFromString(s, i) ==
  [pos |-> Pos((ToRole(strtoull(s, i).v) + Limb - 1) % Limb,
               ToInt(strtol(s, strtoull(s, i).end + 1).v) - 1),
   end |-> strtol(s, strtoull(s, i).end + 1).end]

\* Range::fromString(s + i)
RangeFromString(s, i) ==
  Range(PosFromString(s, i).pos,
        PosFromString(s, PosFromString(s, i).end + 1).pos)

\* snprintf(buf, sizeof buf, ...) with char buf[99]
snprintf(s) == SubSeq(s, 1, IF Len(s) < 98 THEN Len(s) ELSE 98)


\* reflect(JsonWriter &, SymbolRef &): "range|usr|kind|role"
reflectJsonWriterSymbolRef(v) ==
  snprintf(RangeToString(v.range) \o <<"|">> \o PrintU64(v.usr) \o <<"|">>
           \o PrintInt(v.kind) \o <<"|">> \o PrintInt(v.role))

\* reflect(JsonWriter &, Use &): "range|role|file_id"
reflectJsonWriterUse(v) ==
  snprintf(RangeToString(v.range) \o <<"|">> \o PrintInt(v.role) \o <<"|">>
           \o PrintInt(v.file_id))

\* reflect(JsonWriter &, DeclRef &): "range|extent|role|file_id"
reflectJsonWriterDeclRef(v) ==
  snprintf(RangeToString(v.range) \o <<"|">> \o RangeToString(v.extent)
           \o <<"|">> \o PrintInt(v.role) \o <<"|">> \o PrintInt(v.file_id))

\* reflect(JsonReader &, SymbolRef &)
reflectJsonReaderSymbolRef(t) ==
  SymbolRef(
    RangeFromString(t, 1),
    strtoull(t, strchr(t, 1, "|") + 1).v,
    ToKind(strtol(t, strtoull(t, strchr(t, 1, "|") + 1).end + 1).v),
    ToRole(strtol(t, strtol(t, strtoull(t, strchr(t, 1, "|") + 1).end + 1).end
                     + 1).v))

\* a reader that takes the file index before the role
reflectJsonReaderUseSwapped(t) ==
  Use(RangeFromString(t, 1),
      ToRole(strtol(t, strtol(t, strchr(t, 1, "|") + 1).end + 1).v),
      ToInt(strtol(t, strchr(t, 1, "|") + 1).v))

\* reflect(JsonReader &, Use &)
reflectJsonReaderUse(t) ==
  Use(RangeFromString(t, 1),
      ToRole(strtol(t, strchr(t, 1, "|") + 1).v),
      ToInt(strtol(t, strtol(t, strchr(t, 1, "|") + 1).end + 1).v))

\* reflect(JsonReader &, DeclRef &)
reflectJsonReaderDeclRef(t) ==
  DeclRef(
    Use(RangeFromString(t, 1),
        ToRole(strtol(t, strchr(t, strchr(t, 1, "|") + 1, "|") + 1).v),
        ToInt(strtol(t, strtol(t, strchr(t, strchr(t, 1, "|") + 1, "|") + 1).end
                        + 1).v)),
    RangeFromString(t, strchr(t, 1, "|") + 1))

\* the values written: ranges at the ends of the position fields, keys at
\* the ends of 64 bits, every Kind, roles at the ends of 16 bits, and file
\* indices from -1 to the largest int
WireRanges ==
  {Range(Pos(0, 0), Pos(0, 1)),
   Range(Pos(9, -1), Pos(Limb - 1, 2^15 - 1))}
WireUsrs == {Zero64, <<0, 0, 1, 0>>, <<1, 2, 3, 4>>, Max64}
WireKinds == 0..4
WireRoles == {0, 5, Limb - 1}
WireFileIds == {-1, 0, 10, (2^15 - 1) * Limb + (Limb - 1)}

SymbolRefs ==
  {SymbolRef(r, u, k, ro)
     : r \in WireRanges, u \in WireUsrs, k \in WireKinds, ro \in WireRoles}
Uses == {Use(r, ro, f) : r \in WireRanges, ro \in WireRoles, f \in WireFileIds}
DeclRefs ==
  {DeclRef(Use(r, ro, f), e)
     : r \in WireRanges, ro \in {5, Limb - 1}, f \in {-1, 10}, e \in WireRanges}


(***************************************************************************)
(* The binary form.  A writer is the sequence of bytes written so far; a   *)
(* reader is [buf, pos, v]: the bytes, the next position to read and the   *)
(* value read last.  Fields have fixed widths, least significant byte      *)
(* first.                                                                  *)
(***************************************************************************)
Bytes16(x) == <<x % 2^8, x \div 2^8>>
Word16(buf, p) == buf[p] + 2^8 * buf[p + 1]

\* reflect(BinaryWriter &, T &) for the fields of the location records
writeU16(buf, x) == buf \o Bytes16(x)
writeI16(buf, x) == buf \o Bytes16(x % Limb)
writeI32(buf, x) == buf \o Bytes16(x % Limb) \o Bytes16((x \div Limb) % Limb)
writeU8(buf, x) == Append(buf, x)
writeU64(buf, l) ==
  buf \o Bytes16(l[4]) \o Bytes16(l[3]) \o Bytes16(l[2]) \o Bytes16(l[1])
writePos(buf, pos) == writeI16(writeU16(buf, pos.line), pos.column)
writeRange(buf, r) == writePos(writePos(buf, r.start), r.end)

\* reflect(BinaryReader &, T &) for the same fields
readU16(rd) == [buf |-> rd.buf, pos |-> rd.pos + 2, v |-> Word16(rd.buf, rd.pos)]
readI16(rd) ==
  [buf |-> rd.buf, pos |-> rd.pos + 2,
   v |-> IF Word16(rd.buf, rd.pos) >= 2^15
           THEN Word16(rd.buf, rd.pos) - Limb
           ELSE Word16(rd.buf, rd.pos)]
readI32(rd) ==
  [buf |-> rd.buf, pos |-> rd.pos + 4,
   v |-> ToInt(<<0, 0, Word16(rd.buf, rd.pos + 2), Word16(rd.buf, rd.pos)>>)]
readU8(rd) == [buf |-> rd.buf, pos |-> rd.pos + 1, v |-> rd.buf[rd.pos]]
readU64(rd) ==
  [buf |-> rd.buf, pos |-> rd.pos + 8,
   v |-> <<Word16(rd.buf, rd.pos + 6), Word16(rd.buf, rd.pos + 4),
           Word16(rd.buf, rd.pos + 2), Word16(rd.buf, rd.pos)>>]
readPos(rd) ==
  [buf |-> rd.buf, pos |-> rd.pos + 4,
   v |-> Pos(readU16(rd).v, readI16(readU16(rd)).v)]
readRange(rd) ==
  [buf |-> rd.buf, pos |-> rd.pos + 8,
   v |-> Range(readPos(rd).v, readPos(readPos(rd)).v)]


\* reflect(BinaryWriter &, SymbolRef &): range, usr, kind, role
reflectBinaryWriterSymbolRef(buf, v) ==
  writeU16(writeU8(writeU64(writeRange(buf, v.range), v.usr), v.kind), v.role)

\* reflect(BinaryWriter &, Use &): range, role, file_id
reflectBinaryWriterUse(buf, v) ==
  writeI32(writeU16(writeRange(buf, v.range), v.role), v.file_id)

\* reflect(BinaryWriter &, DeclRef &): the Use, then extent
reflectBinaryWriterDeclRef(buf, v) ==
  writeRange(reflectBinaryWriterUse(buf, v), v.extent)

\* reflect(BinaryReader &, SymbolRef &)
reflectBinaryReaderSymbolRef(rd) ==
  [buf |-> rd.buf,
   pos |-> readU16(readU8(readU64(readRange(rd)))).pos,
   v |-> SymbolRef(readRange(rd).v,
                   readU64(readRange(rd)).v,
                   readU8(readU64(readRange(rd))).v,
                   readU16(readU8(readU64(readRange(rd)))).v)]

\* reflect(BinaryReader &, Use &)
reflectBinaryReaderUse(rd) ==
  [buf |-> rd.buf,
   pos |-> readI32(readU16(readRange(rd))).pos,
   v |-> Use(readRange(rd).v,
             readU16(readRange(rd)).v,
             readI32(readU16(readRange(rd))).v)]

\* a reader that takes extent before the Use
reflectBinaryReaderDeclRefExtentFirst(rd) ==
  [buf |-> rd.buf,
   pos |-> reflectBinaryReaderUse(readRange(rd)).pos,
   v |-> DeclRef(reflectBinaryReaderUse(readRange(rd)).v, readRange(rd).v)]

\* reflect(BinaryReader &, DeclRef &)
reflectBinaryReaderDeclRef(rd) ==
  [buf |-> rd.buf,
   pos |-> readRange(reflectBinaryReaderUse(rd)).pos,
   v |-> DeclRef(reflectBinaryReaderUse(rd).v,
                 readRange(reflectBinaryReaderUse(rd)).v)]

(***************************************************************************)
(* Writing a location record and reading it back.  wire is                 *)
(*   [type, v]            the record to write                              *)
(*   json, fromJson       the string written and the record read from it   *)
(*   binary, fromBinary   the bytes written (after a prefix already in     *)
(*                        the stream) and the reader after reading         *)
(***************************************************************************)
WireValues ==
  {[type |-> "SymbolRef", v |-> v] : v \in SymbolRefs}
  \cup {[type |-> "Use", v |-> v] : v \in Uses}
  \cup {[type |-> "DeclRef", v |-> v] : v \in DeclRefs}

\* bytes already in the stream, and bytes written after the record
Prefix == <<7>>
Suffix == <<9>>

InitReflect ==
  /\ pc = "done"
  /\ ok = TRUE
  /\ result = <<>>
  /\ input = CHOOSE i \in PassInputs : ~i.no_linkage /\ ~i.multiVersion
  /\ vfs = {}
  /\ covered = {}
  /\ failure = ""
  /\ nEvents = 0
  /\ FreshPass
  /\ NoList
  /\ peer = NewIndexParam(FALSE)
  /\ members = <<>>
  /\ bodies = <<>>
  /\ call = <<>>
  /\ \E w \in WireValues :
       wire = [type |-> w.type, v |-> w.v, json |-> <<>>, fromJson |-> <<>>,
               binary |-> <<>>, fromBinary |-> <<>>]

JsonWrite ==
  /\ wire.json = <<>>
  /\ wire' = [wire EXCEPT !.json =
       CASE wire.type = "SymbolRef" -> reflectJsonWriterSymbolRef(wire.v)
         [] wire.type = "Use" -> reflectJsonWriterUse(wire.v)
         [] wire.type = "DeclRef" -> reflectJsonWriterDeclRef(wire.v)]
  /\ UNCHANGED <<passVars, listVars, peer, members, bodies, call>>

JsonRead ==
  /\ wire.json # <<>>
  /\ wire.fromJson = <<>>
  /\ wire' = [wire EXCEPT !.fromJson =
       CASE wire.type = "SymbolRef" -> <<reflectJsonReaderSymbolRef(wire.json)>>
         [] wire.type = "Use" -> <<reflectJsonReaderUse(wire.json)>>
         [] wire.type = "DeclRef" -> <<reflectJsonReaderDeclRef(wire.json)>>]
  /\ UNCHANGED <<passVars, listVars, peer, members, bodies, call>>

BinaryWrite ==
  /\ wire.binary = <<>>
  /\ wire' = [wire EXCEPT !.binary =
       CASE wire.type = "SymbolRef" -> reflectBinaryWriterSymbolRef(Prefix, wire.v)
         [] wire.type = "Use" -> reflectBinaryWriterUse(Prefix, wire.v)
         [] wire.type = "DeclRef" -> reflectBinaryWriterDeclRef(Prefix, wire.v)]
  /\ UNCHANGED <<passVars, listVars, peer, members, bodies, call>>

BinaryRead ==
  /\ wire.binary # <<>>
  /\ wire.fromBinary = <<>>
  /\ wire' = [wire EXCEPT !.fromBinary =
       CASE wire.type = "SymbolRef" ->
              <<reflectBinaryReaderSymbolRef(
                  [buf |-> wire.binary \o Suffix, pos |-> Len(Prefix) + 1, v |-> 0])>>
         [] wire.type = "Use" ->
              <<reflectBinaryReaderUse(
                  [buf |-> wire.binary \o Suffix, pos |-> Len(Prefix) + 1, v |-> 0])>>
         [] wire.type = "DeclRef" ->
              <<reflectBinaryReaderDeclRef(
                  [buf |-> wire.binary \o Suffix, pos |-> Len(Prefix) + 1, v |-> 0])>>]
  /\ UNCHANGED <<passVars, listVars, peer, members, bodies, call>>

NextReflect ==
  \/ JsonWrite
  \/ JsonRead
  \/ BinaryWrite
  \/ BinaryRead

SpecReflect == InitReflect /\ [][NextReflect]_vars


\* the number of '|' in a string
Bars(t) == Cardinality({i \in 1..Len(t) : t[i] = "|"})

\* C12: reading with the JsonReader reflect the string the JsonWriter
\* reflect produced yields the original SymbolRef, Use or DeclRef field by
\* field (a Use with file index -1 and a SymbolRef with any 64-bit key
\* included); the strings are range|usr|kind|role, range|role|file-index
\* and range|extent|role|file-index.
C12_JsonRoundTrip ==
  /\ wire.fromJson # <<>> => wire.fromJson[1] = wire.v
  /\ wire.json # <<>> =>
       /\ Bars(wire.json) = IF wire.type = "Use" THEN 2 ELSE 3
       /\ RangeFromString(wire.json, 1) = wire.v.range
       /\ wire.type = "SymbolRef" =>
            strtoull(wire.json, strchr(wire.json, 1, "|") + 1).v = wire.v.usr
       /\ wire.type = "DeclRef" =>
            RangeFromString(wire.json, strchr(wire.json, 1, "|") + 1)
              = wire.v.extent

\* a Use whose file index is -1 was written and read back
C12_Witness ==
  /\ wire.type = "Use"
  /\ wire.v.file_id = -1
  /\ wire.v.role = Limb - 1
  /\ wire.fromJson = <<wire.v>>


\* C13: the BinaryReader reflect reads the fields the BinaryWriter reflect
\* wrote, in the same order, so that decoding the bytes just written gives
\* back every field and stops exactly after the last byte written.
C13_BinaryRoundTrip ==
  wire.fromBinary # <<>> =>
    /\ wire.fromBinary[1].v = wire.v
    /\ wire.fromBinary[1].pos = Len(wire.binary) + 1

\* a DeclRef whose extent differs from its range was written and read back
C13_Witness ==
  /\ wire.type = "DeclRef"
  /\ wire.v.extent # wire.v.range
  /\ wire.v.file_id = -1
  /\ wire.fromBinary # <<>>
  /\ wire.fromBinary[1].v = wire.v


\* the stamps of the IndexFiles a map of IndexFiles holds
stampsOf(D) == {stampOf(D[f]) : f \in DOMAIN D}

\* no two handles of the map own IndexFiles of one stamp
OneOwner(D) ==
  \A f, g \in DOMAIN D : stampOf(D[f]) = stampOf(D[g]) => f = g

\* C14: for passes running concurrently on one staleness cache, under any
\* interleaving of their admissions, at most one pass creates an IndexFile
\* for a (path, mtime, mode tag), the tag being 3 for a pass that indexes
\* unlinked symbols and 1 otherwise; every other handle of that stamp, in
\* either pass, gets a null index.
C14_OneIndexFilePerStamp ==
  /\ OneOwner(dbs)
  /\ OneOwner(result)
  /\ OneOwner(peer.dbs)
  /\ stampsOf(dbs) \cap stampsOf(peer.dbs) = {}
  /\ stampsOf(result) \cap stampsOf(peer.dbs) = {}
  /\ \A st \in vfs :
       st \in stampsOf(dbs) \cup stampsOf(result) \cup stampsOf(peer.dbs)
  /\ \A f \in DOMAIN dbs : dbs[f].no_linkage = input.no_linkage
  /\ \A g \in DOMAIN peer.dbs : peer.dbs[g].no_linkage = peer.no_linkage

\* both passes staged a.h in the same mode; the second pass owns its
\* IndexFile and the first pass got a null index for it
C14_Witness ==
  /\ peer.no_linkage = input.no_linkage
  /\ \E g \in DOMAIN peer.dbs : peer.dbs[g].path = "a.h"
  /\ \E f \in DOMAIN uid2file :
       uid2file[f].path = "a.h" /\ f \notin DOMAIN dbs
  /\ \E f \in DOMAIN dbs : dbs[f].path = "main.cc"
  /\ pc = "exec"


\* the engine is running or has run, and idx::index has not returned
InPass == pc \in {"exec", "end", "parsed"}

\* a later consumeFile(fid) neither consults the staleness cache nor changes
\* what the handle owns
SameAnswer(fid) ==
  /\ consumeFile(Cur, fid, input.no_linkage).stamped = stamped
  /\ consumeFile(Cur, fid, input.no_linkage).vfs = vfs
  /\ consumeFile(Cur, fid, input.no_linkage).dbs = dbs
  /\ consumeFile(Cur, fid, input.no_linkage).uid2file = uid2file

C15_ConsultedOnce ==
  /\ \A fid \in DOMAIN stamped : Len(stamped[fid]) <= 1
  /\ \A fid \in DOMAIN uid2file : SameAnswer(fid)

C15_AnswerKept ==
  (InPass /\ pc' \in {"exec", "end", "parsed"}) =>
    \A fid \in DOMAIN uid2file :
      /\ fid \in DOMAIN uid2file'
      /\ (fid \in DOMAIN dbs) <=> (fid \in DOMAIN dbs')
      /\ Calls(stamped', fid) = Calls(stamped, fid)

\* C15: within one pass the staleness cache is consulted at most once per
\* file handle, on the first seenFile / consumeFile call for it, and every
\* later consumeFile call for the handle returns what the first returned:
\* the same IndexFile, or null.
C15_StampedOncePerHandle ==
  [](C15_ConsultedOnce) /\ [][C15_AnswerKept]_vars

\* three events were reported in files staged under the handles 2 and 3 of
\* a.h: the cache was asked once for each, handle 2 owns the IndexFile and
\* handle 3 has none
C15_Witness ==
  /\ nEvents = MaxEvents
  /\ Calls(stamped, 2) = <<TRUE>>
  /\ Calls(stamped, 3) = <<FALSE>>
  /\ 2 \in DOMAIN dbs
  /\ 3 \in DOMAIN uid2file /\ 3 \notin DOMAIN dbs
  /\ \E ev \in DeclOccurrences : ev.fid = 2 /\ Count(evlog, ev) >= 1


\* this step reports the event ev
Reported(ev) == Count(evlog', ev) = Count(evlog, ev) + 1

\* the handle whose IndexFile the handler of ev asks for: the routed handle
\* for an occurrence, the file of the directive for a macro event
TargetOf(ev) == IF ev \in DeclOccurrences THEN routeOf(ev) ELSE ev.fid

\* the handle is staged without an IndexFile after the step
NullAfter(fid) == fid \in DOMAIN uid2file' /\ fid \notin DOMAIN dbs'

\* the entities of every IndexFile are after the step what they were before
EntitiesKept ==
  \A f \in DOMAIN dbs' :
    /\ dbs'[f].usr2func = IF f \in DOMAIN dbs THEN dbs[f].usr2func ELSE <<>>
    /\ dbs'[f].usr2type = IF f \in DOMAIN dbs THEN dbs[f].usr2type ELSE <<>>
    /\ dbs'[f].usr2var = IF f \in DOMAIN dbs THEN dbs[f].usr2var ELSE <<>>

C16_Owns ==
  InPass =>
    \A fid \in DOMAIN uid2file :
      /\ (fid \in DOMAIN dbs) <=>
           (pathFromFileEntry(fid) # "" /\ Calls(stamped, fid) = <<TRUE>>)
      /\ Calls(stamped, fid) = <<FALSE>> =>
           /\ fid \notin DOMAIN dbs
           /\ uid2file[fid].path = pathFromFileEntry(fid)
           /\ uid2file[fid].mtime = ModificationTime(pathFromFileEntry(fid))
      /\ pathFromFileEntry(fid) = "" => Calls(stamped, fid) = <<>>

C16_RoutedStep ==
  \A ev \in LoggedEvents :
    (Reported(ev) /\ NullAfter(TargetOf(ev))) => EntitiesKept

\* C16 (as amended): a staged handle owns an IndexFile iff its file entry
\* resolved and stamp returned true at its first admission; when stamp
\* returns false the handle stays staged with its path and mtime and no
\* IndexFile, and an event whose handler asks for that handle's IndexFile
\* (the event's file, or the main file for an occurrence in a multi-version
\* file) changes no entity.
C16_IndexFileIffStamped ==
  [](C16_Owns) /\ [][C16_RoutedStep]_vars

\* an occurrence in a.h was reported and dropped: its handle 2 is staged
\* with path and mtime, stamp returned false for it, and the IndexFile of
\* a.h belongs to handle 3
C16_Witness ==
  /\ ~input.multiVersion
  /\ Calls(stamped, 2) = <<FALSE>>
  /\ 2 \in DOMAIN uid2file /\ 2 \notin DOMAIN dbs
  /\ uid2file[2].path = "a.h"
  /\ 3 \in DOMAIN dbs
  /\ \E ev \in DeclOccurrences : ev.fid = 2 /\ Count(evlog, ev) >= 1
  /\ dbs[3].usr2func = <<>> /\ dbs[3].usr2type = <<>>

C16_StatedStep ==
  \A ev \in LoggedEvents :
    (Reported(ev) /\ NullAfter(ev.fid)) => EntitiesKept

\* C16 (as stated): the same, and no event located in a file whose handle
\* has no IndexFile changes any entity.
C16_AsStated ==
  [](C16_Owns) /\ [][C16_StatedStep]_vars


\* the returned IndexFiles have pairwise different paths
C17_DistinctPaths ==
  \A f, g \in DOMAIN result : result[f].path = result[g].path => f = g

\* the step that builds the result of a successful pass returns the
\* IndexFile of every staged handle that owns one, and nothing else
C17_ReturnStep ==
  (pc = "parsed" /\ pc' = "done" /\ ok) =>
    /\ DOMAIN result' = DOMAIN dbs
    /\ DOMAIN result' \subseteq DOMAIN uid2file
    /\ \A f \in DOMAIN result' :
         /\ result'[f].path = dbs[f].path
         /\ result'[f].path = uid2file[f].path
         /\ result'[f].usr2func = [u \in DOMAIN dbs[f].usr2func |->
                                     uniquifyEntity("Func", dbs[f].usr2func[u])]

\* C17: a successful idx::index returns exactly one IndexFile for each
\* staged handle that owns one and none for the other handles, and no two
\* returned IndexFiles have the same path, also when one file was entered
\* under several handles.
C17_OneIndexFilePerOwningHandle ==
  [](C17_DistinctPaths) /\ [][C17_ReturnStep]_vars

\* a.h was entered under the handles 2 and 3 and main.cc under 1; the
\* result holds one IndexFile for a.h and one for main.cc
C17_Witness ==
  /\ pc = "done" /\ ok
  /\ {1, 2, 3} \subseteq DOMAIN uid2file
  /\ Cardinality(DOMAIN result) = 2
  /\ {result[f].path : f \in DOMAIN result} = {"a.h", "main.cc"}


\* the definition record of the entity of a storage kind under key u in an
\* IndexFile (empty when the IndexFile has no such entity)
SpellOf(db, kind, u) ==
  IF u \in DOMAIN db[MapOf(kind)] THEN db[MapOf(kind)][u].def.spell ELSE <<>>

C18_Step ==
  \A f \in DOMAIN dbs : \A kind \in Kinds : \A u \in DOMAIN dbs[f][MapOf(kind)] :
    Len(SpellOf(dbs[f], kind, u)) = 1 =>
      IF f \in DOMAIN dbs'
        THEN Len(SpellOf(dbs'[f], kind, u)) = 1
        ELSE /\ pc' = "done" /\ ok'
             /\ f \in DOMAIN result'
             /\ Len(SpellOf(result'[f], kind, u)) = 1

\* C18: once the definition record (def.spell) of an entity is set in an
\* IndexFile it stays set in every later state of the pass and in the
\* returned IndexFile: no occurrence, macro event or finalization step
\* empties it.
C18_DefinitionRecordStaysSet == [][C18_Step]_vars

\* a macro was defined twice: the second definition found the definition
\* record set, moved it to the declarations and set it again; the returned
\* IndexFile holds it
C18_Witness ==
  /\ pc = "done" /\ ok
  /\ \E f \in DOMAIN result :
       /\ getMacro("MAX") \in DOMAIN result[f].usr2var
       /\ Len(result[f].usr2var[getMacro("MAX")].declarations) = 1
       /\ Len(result[f].usr2var[getMacro("MAX")].def.spell) = 1


C19_Step(ev) ==
  (Recorded(ev) /\ is_def(ev)) =>
    LET kind == getKind(ev.D, "Unknown").ret
        u == KeyOf(ev.D)
        before == EntityAt(dbs, routeOf(ev), kind, u)
        after == EntityAt(dbs', routeOf(ev), kind, u)
    IN  /\ Len(after.def.spell) = 1
        /\ after.def.spell[1].range = ev.loc
        /\ after.def.spell[1].role = roleOf(ev)
        /\ after.def.spell[1].extent =
             fromTokenRangeDefaulted(ev.D, ev.fid, ev.loc)
        /\ after.def.parent_kind =
             getKind(SemDC(ev), before.def.parent_kind).kind
        /\ before.def.comments # "" =>
             after.def.comments = before.def.comments

\* C19 (as amended): every definition event the handler records sets the
\* definition record of its entity to that event's spelling location, role
\* and extent, and the containing-kind to the kind of that event's semantic
\* container (left as it was when the container has no symbol kind): the
\* last definition event for a key in an IndexFile wins.  Only the comment
\* is set once: a later definition event keeps a comment already there.
C19_LastDefinitionWins ==
  [][\A ev \in DefinitionEvents : C19_Step(ev)]_vars

\* both alias-declarations of td were reported as definitions, the second
\* after the first: the definition record is the second one's, the comment
\* the one the entity had before
C19_Witness ==
  /\ Count(evlog, DeclEv("td", {"Declaration", "Definition"}, 1, 25, 25, "tu")) = 1
  /\ Count(evlog, DeclEv("td2", {"Declaration", "Definition"}, 1, 27, 27, "tu")) = 1
  /\ nEvents = 2
  /\ \E f \in DOMAIN dbs :
       /\ KeyOf("td") \in DOMAIN dbs[f].usr2type
       /\ dbs[f].usr2type[KeyOf("td")].def.spell[1].range = 27

C19_StatedStep(ev) ==
  (Recorded(ev) /\ is_def(ev)) =>
    LET kind == getKind(ev.D, "Unknown").ret
        u == KeyOf(ev.D)
        before == EntityAt(dbs, routeOf(ev), kind, u)
        after == EntityAt(dbs', routeOf(ev), kind, u)
    IN  (\E first \in DefinitionEvents :
           /\ Count(evlog, first) > 0
           /\ KeyOf(first.D) = u
           /\ routeOf(first) = routeOf(ev)) =>
          /\ after.def.spell = before.def.spell
          /\ after.def.parent_kind = before.def.parent_kind

\* C19 (as stated): the definition record and the containing-kind are set
\* exactly once: after a first definition event for a key in an IndexFile,
\* a later definition event for the same key in that IndexFile does not
\* change them.
C19_AsStated ==
  [][\A ev \in DefinitionEvents : C19_StatedStep(ev)]_vars


\* the occurrence takes the multi-version route: multi-version indexing is
\* on and the matcher accepts the path of the event's file
MultiRoute(ev) ==
  /\ input.multiVersion
  /\ pathFromFileEntry(ev.fid) # ""
  /\ multiVersionMatches(input.whitelist, pathFromFileEntry(ev.fid))

\* the records (uses, declarations, the definition record) the entity of a
\* storage kind under key u of the IndexFile staged under f has after the
\* step and did not have before it
NewRecords(f, kind, u) ==
  LET before == EntityAt(dbs, f, kind, u)
      after == EntityAt(dbs', f, kind, u)
  IN  {after.uses[i] : i \in (Len(before.uses) + 1) .. Len(after.uses)}
        \cup {after.declarations[i] :
                i \in (Len(before.declarations) + 1) .. Len(after.declarations)}
        \cup (IF after.def.spell # before.def.spell
                THEN {after.def.spell[1]}
                ELSE {})

\* the local-file index the IndexFile staged under t gives the file fid
LidOf(t, fid) == dbs'[t].uid2lid_and_path[fid].lid

\* every record of the step is stored in the IndexFile the occurrence is
\* routed to, and an IndexFile the step creates is empty
StoredInRouted(ev) ==
  \A f \in DOMAIN dbs' : \A kind \in Kinds :
    f # routeOf(ev) =>
      dbs'[f][MapOf(kind)] =
        IF f \in DOMAIN dbs THEN dbs[f][MapOf(kind)] ELSE <<>>

C20_Step(ev) ==
  /\ Recorded(ev) =>
       /\ StoredInRouted(ev)
       /\ MultiRoute(ev) => (routeOf(ev) = getMainFileID /\ ev.fid \in DOMAIN uid2file')
       /\ ~MultiRoute(ev) => routeOf(ev) = ev.fid
       /\ \A kind \in Kinds : \A u \in DOMAIN dbs'[routeOf(ev)][MapOf(kind)] :
            \A r \in NewRecords(routeOf(ev), kind, u) :
              IF r.role = {"Dynamic"}
                THEN /\ ev.spell # ev.loc
                     /\ r.file_id = LidOf(routeOf(ev), ev.spellFid)
                     /\ r.file_id >= 0
                ELSE IF MultiRoute(ev) /\ ev.fid # getMainFileID
                  THEN /\ r.file_id = LidOf(routeOf(ev), ev.fid)
                       /\ r.file_id >= 0
                  ELSE r.file_id = -1
  /\ (Reported(ev) /\ routeOf(ev) \notin DOMAIN dbs') => dbs' = dbs

\* C20 (as amended): an occurrence whose file the multi-version matcher
\* accepts is stored in the main file's IndexFile and its own file is staged
\* too; any other occurrence is stored in its own file's IndexFile; no other
\* IndexFile changes.  The record of the occurrence itself (definition
\* record, declaration or use) carries local-file index -1, except on the
\* multi-version route for a location not written in the main file, where
\* it carries the index the main IndexFile gives the event's file.  The use
\* added for a spelling inside a macro expansion (role Dynamic) always
\* carries the index the chosen IndexFile gives the spelling's file, never
\* -1.  If the chosen IndexFile is null the event changes no IndexFile.
C20_Routing ==
  [][\A ev \in DeclOccurrences : C20_Step(ev)]_vars

\* with a matcher that accepts a.h and main.cc, a definition written in a.h
\* and one written in main.cc are both stored in main.cc's IndexFile, the
\* first with the local-file index of a.h, the second with -1; a.h is staged
C20_Witness ==
  /\ input.multiVersion /\ "main.cc" \in input.whitelist
  /\ getMainFileID \in DOMAIN dbs /\ 2 \in DOMAIN uid2file
  /\ KeyOf("A") \in DOMAIN dbs[getMainFileID].usr2type
  /\ KeyOf("g") \in DOMAIN dbs[getMainFileID].usr2func
  /\ Len(dbs[getMainFileID].usr2type[KeyOf("A")].def.spell) = 1
  /\ Len(dbs[getMainFileID].usr2func[KeyOf("g")].def.spell) = 1
  /\ dbs[getMainFileID].usr2type[KeyOf("A")].def.spell[1].file_id >= 0
  /\ dbs[getMainFileID].usr2func[KeyOf("g")].def.spell[1].file_id = -1

C20_StatedStep(ev) ==
  /\ Recorded(ev) =>
       /\ StoredInRouted(ev)
       /\ MultiRoute(ev) => (routeOf(ev) = getMainFileID /\ ev.fid \in DOMAIN uid2file')
       /\ ~MultiRoute(ev) => routeOf(ev) = ev.fid
       /\ \A kind \in Kinds : \A u \in DOMAIN dbs'[routeOf(ev)][MapOf(kind)] :
            \A r \in NewRecords(routeOf(ev), kind, u) :
              (r.file_id = -1) <=> ~(MultiRoute(ev) /\ ev.fid # getMainFileID)
  /\ (Reported(ev) /\ routeOf(ev) \notin DOMAIN dbs') => dbs' = dbs

\* C20 (as stated): on the multi-version route every record of the
\* occurrence is stored in the main file's IndexFile, the event's file is
\* staged, and the record's local-file index is -1 exactly when the location
\* is written in the main file; otherwise every record is stored in the
\* event file's own IndexFile with local-file index -1; a null IndexFile
\* means the event changes no IndexFile.
C20_AsStated ==
  [][\A ev \in DeclOccurrences : C20_StatedStep(ev)]_vars


\* C21: when the pass does not index unlinked symbols, an occurrence whose
\* node is unnamed or has no linkage leaves the whole pass state as it was:
\* the staging table, the staleness cache and its call history, the
\* multi-version memo, the identity cache and every IndexFile.
C21_UnlinkedOccurrenceDropped ==
  [][\A ev \in DeclOccurrences :
       (Reported(ev) /\ ~input.no_linkage /\ ~AST[ev.D].linkage) =>
         UNCHANGED passState]_vars

\* the definition of the local variable lv was reported to a pass that does
\* not index unlinked symbols, after the main file's IndexFile was staged:
\* no IndexFile has an entity for lv and the identity cache has no entry
C21_Witness ==
  /\ ~input.no_linkage
  /\ Count(evlog, DeclEv("lv", {"Declaration", "Definition"}, 1, 21, 21, "gDef")) = 1
  /\ getMainFileID \in DOMAIN dbs
  /\ "lv" \notin DOMAIN Decl2Info
  /\ \A f \in DOMAIN dbs : KeyOf("lv") \notin DOMAIN dbs[f].usr2var


\* this step reports the occurrence ev of a node of storage kind Invalid,
\* and the handler reaches the classification: ev passes the linkage test
\* and lies in a valid file whose target IndexFile exists
InvalidReached(ev) ==
  /\ Reported(ev)
  /\ input.no_linkage \/ AST[ev.D].linkage
  /\ ev.fid # 0
  /\ routeOf(ev) \in DOMAIN dbs'
  /\ getKind(ev.D, "Unknown").ret = "Invalid"

\* the local-file table of the target IndexFile gains at most the entry of
\* the event's file, and only on the multi-version route for a location not
\* written in the main file
LidTableStep(ev, before, after) ==
  /\ \A f \in DOMAIN before : f \in DOMAIN after /\ after[f] = before[f]
  /\ DOMAIN after \subseteq
       DOMAIN before \cup
         (IF MultiRoute(ev) /\ ev.fid # getMainFileID THEN {ev.fid} ELSE {})

C22_Step(ev) ==
  InvalidReached(ev) =>
    /\ EntitiesKept
    /\ AST[adjusted(ev)].canon \in DOMAIN Decl2Info'
    /\ dbs'[routeOf(ev)].language =
         BitOr(IF routeOf(ev) \in DOMAIN dbs
                 THEN dbs[routeOf(ev)].language
                 ELSE LanguageId("C"),
               getDeclLanguage(ev.D))
    /\ LidTableStep(ev,
                    IF routeOf(ev) \in DOMAIN dbs
                      THEN dbs[routeOf(ev)].uid2lid_and_path
                      ELSE <<>>,
                    dbs'[routeOf(ev)].uid2lid_and_path)
    /\ routeOf(ev) \in DOMAIN dbs =>
         dbs'[routeOf(ev)] =
           [dbs[routeOf(ev)] EXCEPT
              !.language = dbs'[routeOf(ev)].language,
              !.uid2lid_and_path = dbs'[routeOf(ev)].uid2lid_and_path]

\* C22 (as amended): an occurrence whose node classifies as Invalid creates
\* no entity in any of the three maps of any IndexFile and appends no
\* declaration, use or relationship record.  It is not without effect: the
\* target IndexFile is staged if it was not, its language mask has the
\* node's language merged in, on the multi-version route its local-file
\* table gets an entry for the event's file, and the identity cache gets the
\* node's entry; every other field of the target IndexFile stays as it was.
C22_InvalidCreatesNoEntity ==
  [][\A ev \in DeclOccurrences : C22_Step(ev)]_vars

\* a using-declaration was reported after the definition of g: the main
\* IndexFile holds the entity of g alone, and its language mask, C before,
\* is now C++
C22_Witness ==
  /\ Count(evlog, DeclEv("gDef", {"Declaration", "Definition"}, 1, 19, 19, "tu")) = 1
  /\ Count(evlog, DeclEv("us", {"Declaration"}, 1, 23, 23, "ns1")) = 1
  /\ nEvents = 2
  /\ getMainFileID \in DOMAIN dbs
  /\ DOMAIN dbs[getMainFileID].usr2func = {KeyOf("g")}
  /\ dbs[getMainFileID].usr2type = <<>> /\ dbs[getMainFileID].usr2var = <<>>
  /\ dbs[getMainFileID].language = LanguageId("Cpp")
  /\ "us" \in DOMAIN Decl2Info

C22_StatedStep(ev) ==
  InvalidReached(ev) =>
    /\ EntitiesKept
    /\ routeOf(ev) \in DOMAIN dbs => dbs'[routeOf(ev)] = dbs[routeOf(ev)]

\* C22 (as stated): an occurrence whose node classifies as Invalid creates
\* no entity, appends no record, and leaves the target IndexFile as it was
\* before the event.
C22_AsStated ==
  [][\A ev \in DeclOccurrences : C22_StatedStep(ev)]_vars


\* the number of reported events of a set of logged events
RECURSIVE Reports(_)
Reports(S) ==
  IF S = {}
    THEN 0
    ELSE LET e == CHOOSE x \in S : TRUE
         IN  evlog[e] + Reports(S \ {e})

\* the definition records of a macro entity in event order: the demoted
\* ones, then the current one
DefinitionHistory(var) == var.declarations \o var.def.spell

\* the macro entity of m in an IndexFile of the main file reflects the
\* definitions of m reported so far
MacroReflects(db, m) ==
  Reports(definitionsOf(m)) >= 1 =>
    /\ getMacro(m) \in DOMAIN db.usr2var
    /\ LET var == db.usr2var[getMacro(m)]
       IN  /\ Len(var.def.spell) = 1
           /\ Len(var.declarations) = Reports(definitionsOf(m)) - 1
           /\ var.def.detailed_name = m
           /\ var.def.hover = MacroHover(m, DefinitionHistory(var)[1].range)

C23_State ==
  \A m \in Macros :
    /\ getMainFileID \in DOMAIN dbs => MacroReflects(dbs[getMainFileID], m)
    /\ getMainFileID \in DOMAIN result => MacroReflects(result[getMainFileID], m)

\* a step that reports a definition of a macro to an IndexFile appends the
\* event's definition record to the history, and any other step of the
\* pass leaves the history of every macro entity as it was
C23_Step ==
  \A f \in DOMAIN dbs' : \A m \in Macros :
    LET before == EntityAt(dbs, f, "Var", getMacro(m))
        after == EntityAt(dbs', f, "Var", getMacro(m))
    IN  IF \E ev \in MacroDefinedEvents : Reported(ev) /\ ev.fid = f /\ ev.D = m
          THEN \E ev \in MacroDefinedEvents :
                 /\ Reported(ev) /\ ev.fid = f /\ ev.D = m
                 /\ DefinitionHistory(after) =
                      Append(DefinitionHistory(before),
                             DeclRef(Use(ev.loc, {"Definition"}, -1), ev.loc))
                 /\ Len(after.def.spell) = 1
                 /\ before.def.detailed_name # "" =>
                      /\ after.def.detailed_name = before.def.detailed_name
                      /\ after.def.hover = before.def.hover
          ELSE /\ DefinitionHistory(after) = DefinitionHistory(before)
               /\ after.def.spell = before.def.spell
               /\ after.def.detailed_name = before.def.detailed_name
               /\ after.def.hover = before.def.hover

\* C23: after n >= 1 definitions of one macro reported to one IndexFile,
\* the macro entity's definition record is that of the last event, its
\* declaration list holds the definition records of the n-1 earlier events
\* in event order, and its detailed name and hover text are those computed
\* at the first definition.
C23_MacroRedefinition ==
  [](C23_State) /\ [][C23_Step]_vars

\* MAX was defined at position 2, then at 1, then at 2 again: the
\* declarations are those of 2 and 1 in that order, the definition record is
\* at 2 and the hover text is that of the first definition
C23_Witness ==
  /\ getMainFileID \in DOMAIN dbs
  /\ getMacro("MAX") \in DOMAIN dbs[getMainFileID].usr2var
  /\ Len(dbs[getMainFileID].usr2var[getMacro("MAX")].declarations) = 2
  /\ dbs[getMainFileID].usr2var[getMacro("MAX")].declarations[1].range = 2
  /\ dbs[getMainFileID].usr2var[getMacro("MAX")].declarations[2].range = 1
  /\ dbs[getMainFileID].usr2var[getMacro("MAX")].def.spell[1].range = 2
  /\ dbs[getMainFileID].usr2var[getMacro("MAX")].def.hover = MacroHover("MAX", 2)


\* the detailed signature (with its offsets, which setName writes together
\* with it) of the entity of a storage kind under key u in the IndexFile of
\* handle f, before and after the step; after the return step the IndexFile
\* is the returned one
NameBefore(f, kind, u) == EntityAt(dbs, f, kind, u).def.detailed_name
NameAfter(f, kind, u) ==
  IF f \in DOMAIN dbs'
    THEN EntityAt(dbs', f, kind, u).def.detailed_name
    ELSE EntityAt(result', f, kind, u).def.detailed_name

\* this step records a definition of the named type under key u in the
\* IndexFile of handle f
TypeDefined(ev, f, u) ==
  /\ Recorded(ev)
  /\ is_def(ev)
  /\ getKind(ev.D, "Unknown").ret = "Type"
  /\ AST[ev.D].name # ""
  /\ routeOf(ev) = f
  /\ KeyOf(ev.D) = u

C24_Step ==
  /\ \A f \in DOMAIN dbs : \A kind \in Kinds : \A u \in DOMAIN dbs[f][MapOf(kind)] :
       NameBefore(f, kind, u) # "" =>
         \/ NameAfter(f, kind, u) = NameBefore(f, kind, u)
         \/ /\ kind = "Type"
            /\ \E ev \in DefinitionEvents : TypeDefined(ev, f, u)
  /\ \A ev \in DefinitionEvents :
       TypeDefined(ev, routeOf(ev), KeyOf(ev.D)) =>
         NameAfter(routeOf(ev), "Type", KeyOf(ev.D)) = AST[ev.D].sig

\* C24 (as amended): the detailed signature of a Func or Var entity, with
\* its offsets, is synthesized only while it is empty, and no later event
\* changes it.  For a Type entity this holds for declarations and
\* references only: every definition event of a named type synthesizes the
\* signature again from the node it reports, so the signature of a type is
\* that of its last definition event.
C24_SignatureKeptButForTypeDefinitions == [][C24_Step]_vars

\* td was declared by an alias-declaration and then again by a typedef: the
\* signature of the type entity, set at the first definition, is now that of
\* the second
C24_Witness ==
  /\ Count(evlog, DeclEv("td", {"Declaration", "Definition"}, 1, 25, 25, "tu")) = 1
  /\ Count(evlog, DeclEv("td2", {"Declaration", "Definition"}, 1, 27, 27, "tu")) = 1
  /\ nEvents = 2
  /\ getMainFileID \in DOMAIN dbs
  /\ KeyOf("td") \in DOMAIN dbs[getMainFileID].usr2type
  /\ dbs[getMainFileID].usr2type[KeyOf("td")].def.detailed_name = AST["td2"].sig

\* C24 (as stated): once a Func, Type or Var entity has a non-empty detailed
\* signature, no later step changes it.
C24_AsStated ==
  [][\A f \in DOMAIN dbs : \A kind \in Kinds : \A u \in DOMAIN dbs[f][MapOf(kind)] :
       NameBefore(f, kind, u) # "" =>
         NameAfter(f, kind, u) = NameBefore(f, kind, u)]_vars


\* the comment of the entity of a storage kind under key u in the IndexFile
\* of handle f, before and after the step
CommentBefore(f, kind, u) == EntityAt(dbs, f, kind, u).def.comments
CommentAfter(f, kind, u) ==
  IF f \in DOMAIN dbs'
    THEN EntityAt(dbs', f, kind, u).def.comments
    ELSE EntityAt(result', f, kind, u).def.comments

\* no entity of a map of IndexFiles has a comment
NoComments(D) ==
  \A f \in DOMAIN D : \A kind \in Kinds : \A u \in DOMAIN D[f][MapOf(kind)] :
    D[f][MapOf(kind)][u].def.comments = ""

C25_Step ==
  /\ \A f \in DOMAIN dbs : \A kind \in Kinds : \A u \in DOMAIN dbs[f][MapOf(kind)] :
       CommentBefore(f, kind, u) # "" =>
         CommentAfter(f, kind, u) = CommentBefore(f, kind, u)
  /\ \A ev \in DeclOccurrences :
       (Reported(ev) /\ ~is_def(ev) /\ ~is_decl(ev)) =>
         \A f \in DOMAIN dbs' : \A kind \in Kinds :
           \A u \in DOMAIN dbs'[f][MapOf(kind)] :
             CommentAfter(f, kind, u) = CommentBefore(f, kind, u)
  /\ \A ev \in DeclOccurrences :
       (Recorded(ev) /\ (is_def(ev) \/ is_decl(ev)) /\ input.comments > 0
          /\ CommentBefore(routeOf(ev), getKind(ev.D, "Unknown").ret,
                           KeyOf(adjusted(ev))) = "") =>
         CommentAfter(routeOf(ev), getKind(ev.D, "Unknown").ret,
                      KeyOf(adjusted(ev))) = getComment(ev.D)

\* C25: the comment of an entity is first-writer-wins: a definition or
\* declaration event stores the comment of its node while the entity has
\* none, a non-empty comment is never changed afterwards, plain reference
\* events set no comment, and no entity has a comment when comment indexing
\* is disabled.
C25_CommentFirstWriterWins ==
  [](input.comments = 0 => (NoComments(dbs) /\ NoComments(result)))
    /\ [][C25_Step]_vars

\* td was declared with the comment "again" and then once more without a
\* comment: the definition record is the second one's, the comment the
\* first one's
C25_Witness ==
  /\ input.comments > 0
  /\ Count(evlog, DeclEv("td", {"Declaration", "Definition"}, 1, 25, 25, "tu")) = 1
  /\ Count(evlog, DeclEv("td2", {"Declaration", "Definition"}, 1, 27, 27, "tu")) = 1
  /\ nEvents = 2
  /\ getMainFileID \in DOMAIN dbs
  /\ KeyOf("td") \in DOMAIN dbs[getMainFileID].usr2type
  /\ dbs[getMainFileID].usr2type[KeyOf("td")].def.spell[1].range = 25
  /\ dbs[getMainFileID].usr2type[KeyOf("td")].def.comments = "again"


\* the member-function key a function occurrence adds to the entity of a
\* storage kind under key u of the IndexFile of handle f: the function's
\* key, on the semantic container of a definition or declaration when that
\* container is a type
AddedFuncs(ev, f, kind, u) ==
  IF /\ is_def(ev) \/ is_decl(ev)
     /\ getKind(SemDC(ev), "Unknown").ret = "Type"
     /\ f = routeOf(ev) /\ kind = "Type" /\ u = KeyOf(SemDC(ev))
    THEN <<KeyOf(adjusted(ev))>>
    ELSE <<>>

\* the callee edge it adds: on the lexical container of a plain use when
\* that container is a function
AddedCallees(ev, f, kind, u) ==
  IF /\ ~is_def(ev) /\ ~is_decl(ev)
     /\ getKind(LexDC(ev), "Unknown").ret = "Func"
     /\ f = routeOf(ev) /\ kind = "Func" /\ u = KeyOf(LexDC(ev))
    THEN <<SymbolRef(ev.loc, KeyOf(adjusted(ev)), "Func", roleOf(ev))>>
    ELSE <<>>

C26_Step(ev) ==
  (Recorded(ev) /\ getKind(ev.D, "Unknown").ret = "Func") =>
    \A f \in DOMAIN dbs' : \A kind \in Kinds : \A u \in DOMAIN dbs'[f][MapOf(kind)] :
      /\ EntityAt(dbs', f, kind, u).def.funcs =
           EntityAt(dbs, f, kind, u).def.funcs \o AddedFuncs(ev, f, kind, u)
      /\ EntityAt(dbs', f, kind, u).def.callees =
           EntityAt(dbs, f, kind, u).def.callees \o AddedCallees(ev, f, kind, u)

\* C26: a function occurrence that is a definition or declaration whose
\* semantic container classifies as Type appends the function's key to that
\* container's member-function list and adds no callee edge; a plain use
\* whose lexical container classifies as Func appends exactly one callee
\* edge {location, key, Func, role} to that container's callee list and no
\* member-function entry; in every other case no member-function list and
\* no callee list of any entity changes.
C26_FunctionContainerEdges ==
  [][\A ev \in DeclOccurrences : C26_Step(ev)]_vars

\* the out-of-line definition of B::m made m a member function of B, and a
\* call of g inside the body of g made g a callee of g
C26_Witness ==
  \E f, h \in DOMAIN dbs :
    /\ KeyOf("B") \in DOMAIN dbs[f].usr2type
    /\ dbs[f].usr2type[KeyOf("B")].def.funcs = <<KeyOf("Bm")>>
    /\ KeyOf("g") \in DOMAIN dbs[h].usr2func
    /\ dbs[h].usr2func[KeyOf("g")].def.callees =
         <<SymbolRef(1, KeyOf("g"), "Func", {"Reference"})>>
    /\ dbs[h].usr2func[KeyOf("g")].def.funcs = <<>>
    /\ Count(evlog, DeclEv("BmDef", {"Declaration", "Definition"}, 2, 17, 17, "tu")) = 1


\* the key of the static type of the variable D: the builtin kind of a
\* primitive, the key of the adjusted declared type, or none (<<>>)
TypeKeyOf(D) ==
  IF AST[D].builtin # 0
    THEN <<AST[D].builtin>>
    ELSE IF getAdjustedDecl(AST[D].tdecl) # ""
      THEN <<KeyOf(getAdjustedDecl(AST[D].tdecl))>>
      ELSE <<>>

\* the instances back-edge a variable occurrence adds to the Type entity
\* under key u of the IndexFile of handle f
AddedInstances(ev, f, u) ==
  IF /\ is_def(ev) \/ is_decl(ev)
     /\ TypeKeyOf(adjusted(ev)) = <<u>>
     /\ AST[adjusted(ev)].kind # "EnumConstant"
     /\ f = routeOf(ev)
    THEN <<KeyOf(adjusted(ev))>>
    ELSE <<>>

C27_Step(ev) ==
  (Recorded(ev) /\ getKind(ev.D, "Unknown").ret = "Var") =>
    /\ EntityAt(dbs', routeOf(ev), "Var", KeyOf(adjusted(ev))).def.type =
         IF (is_def(ev) \/ is_decl(ev)) /\ TypeKeyOf(adjusted(ev)) # <<>>
           THEN TypeKeyOf(adjusted(ev))[1]
           ELSE EntityAt(dbs, routeOf(ev), "Var", KeyOf(adjusted(ev))).def.type
    /\ \A f \in DOMAIN dbs' : \A kind \in Kinds :
         \A u \in DOMAIN dbs'[f][MapOf(kind)] :
           EntityAt(dbs', f, kind, u).instances =
             EntityAt(dbs, f, kind, u).instances
               \o (IF kind = "Type" THEN AddedInstances(ev, f, u) ELSE <<>>)
    /\ ((is_def(ev) \/ is_decl(ev)) /\ TypeKeyOf(adjusted(ev)) # <<>>) =>
         TypeKeyOf(adjusted(ev))[1] \in DOMAIN dbs'[routeOf(ev)].usr2type
           \/ AST[adjusted(ev)].kind = "EnumConstant"

\* C27: a variable definition or declaration whose static type is a
\* primitive or resolves to a declared type sets the variable's type key to
\* that type's key and appends the variable's key to the instances list of
\* that type's entity in the same IndexFile; for an enumerator the type key
\* is set and no instance is added; a plain reference changes neither the
\* type key nor any instances list.
C27_VariableTypeAndInstances ==
  [][\A ev \in DeclOccurrences : C27_Step(ev)]_vars

\* the enumerator ec and the variable x were defined: ec has the key of its
\* enumeration as type and the enumeration no instance, while x is an
\* instance of the template its type was instantiated from
C27_Witness ==
  /\ nEvents = 2
  /\ getMainFileID \in DOMAIN dbs
  /\ KeyOf("ec") \in DOMAIN dbs[getMainFileID].usr2var
  /\ dbs[getMainFileID].usr2var[KeyOf("ec")].def.type = KeyOf("En")
  /\ \A u \in DOMAIN dbs[getMainFileID].usr2type :
       u # KeyOf("T") => dbs[getMainFileID].usr2type[u].instances = <<>>
  /\ KeyOf("x") \in DOMAIN dbs[getMainFileID].usr2var
  /\ dbs[getMainFileID].usr2var[KeyOf("x")].def.type = KeyOf("T")
  /\ KeyOf("T") \in DOMAIN dbs[getMainFileID].usr2type
  /\ dbs[getMainFileID].usr2type[KeyOf("T")].instances = <<KeyOf("x")>>


(***************************************************************************)
(* collectRecordMembers on its own: a family of record layouts.  R0 embeds *)
(* R1 anonymously and has a second unnamed member; R1 may embed R2         *)
(* anonymously and may hold it in a named field; R2 has one field.         *)
(***************************************************************************)
Field(id, named, offset, rec, bad) ==
  [id |-> id, named |-> named, offset |-> offset, rec |-> rec, bad |-> bad]

Layout(x2, x3, x4, bad2, incomplete, dependent, invalid) ==
  [fields |->
     [RD \in {"R0", "R1", "R2"} |->
        CASE RD = "R0" ->
               <<Field("a", TRUE, 0, "", FALSE),
                 Field("u1", FALSE, 32, "R1", FALSE),
                 Field("b", TRUE, 64, "", FALSE),
                 Field("u2", FALSE, 96, x2, FALSE)>>
          [] RD = "R1" ->
               <<Field("c", TRUE, 0, "", FALSE),
                 Field("u3", FALSE, 8, x3, FALSE),
                 Field("n", TRUE, 16, x4, FALSE)>>
          [] OTHER ->
               \* a record that is only declared has no fields
               IF "R2" \in incomplete
                 THEN <<>>
                 ELSE <<Field("d", TRUE, 4, "", bad2)>>],
   incomplete |-> incomplete,
   dependent |-> dependent,
   invalid |-> invalid]

Layouts ==
  {Layout(x2, x3, x4, bad2, incomplete, dependent, invalid) :
     x2 \in {"", "R1", "R2"}, x3 \in {"", "R2"}, x4 \in {"", "R2"},
     bad2 \in BOOLEAN, incomplete \in SUBSET {"R2"},
     dependent \in SUBSET {"R2"}, invalid \in SUBSET {"R0", "R1", "R2"}}

InitRecords ==
  /\ pc = "done"
  /\ ok = TRUE
  /\ result = <<>>
  /\ input = CHOOSE i \in PassInputs : ~i.no_linkage /\ ~i.multiVersion
  /\ vfs = {}
  /\ covered = {}
  /\ failure = ""
  /\ nEvents = 0
  /\ FreshPass
  /\ NoList
  /\ wire = <<>>
  /\ peer = NewIndexParam(FALSE)
  /\ bodies = <<>>
  /\ call = <<>>
  /\ \E L \in Layouts, RD \in {"R0", "R1"} :
       members = [L |-> L, RD |-> RD, vars |-> <<>>, collected |-> FALSE]

\* collectRecordMembers(type, RD) on a type without members
CollectMembers ==
  /\ ~members.collected
  /\ members' = [members EXCEPT !.vars = collectMembers(members.L, members.RD),
                                !.collected = TRUE]
  /\ UNCHANGED <<passVars, listVars, wire, peer, bodies, call>>

NextRecords == CollectMembers

SpecRecords == InitRecords /\ [][NextRecords]_vars


\* the records reachable from RD through record-typed fields, named or not
RECURSIVE RecordsBelow(_, _)
RecordsBelow(L, RD) ==
  {RD} \cup UNION {RecordsBelow(L, L.fields[RD][i].rec) :
                     i \in {j \in 1..Len(L.fields[RD]) :
                              L.fields[RD][j].rec # ""}}

\* some field at or below RD has a type that is incomplete or dependent
UnknownBelow(L, RD) ==
  \E Y \in RecordsBelow(L, RD) :
    \E i \in 1..Len(L.fields[Y]) : fieldTypeUnknown(L, L.fields[Y][i])

\* RD itself is incomplete, dependent or invalid, or a field type at or
\* below it is unknown
LayoutUnknown(L, RD) ==
  RD \in L.incomplete \cup L.dependent \cup L.invalid \/ UnknownBelow(L, RD)

\* the anonymous embeddings of RD: its unnamed fields of record type
Embeddings(L, RD) ==
  {j \in 1..Len(L.fields[RD]) :
     ~L.fields[RD][j].named /\ L.fields[RD][j].rec # ""}

\* the paths from RD through anonymous embeddings, each as <<record reached,
\* sum of the field offsets along the path, some record on the path has no
\* known layout>>
RECURSIVE Paths(_, _, _, _)
Paths(L, RD, sum, unknown) ==
  {<<RD, sum, unknown \/ LayoutUnknown(L, RD)>>}
  \cup UNION {Paths(L, L.fields[RD][i].rec, sum + L.fields[RD][i].offset,
                    unknown \/ LayoutUnknown(L, RD)) :
                i \in Embeddings(L, RD)}

NamedFields(L, RD) ==
  {L.fields[RD][i] : i \in {j \in 1..Len(L.fields[RD]) : L.fields[RD][j].named}}

\* what a path gives the named fields of the record it reaches
PathEntries(L, p) ==
  {<<F.id, IF p[3] THEN -1 ELSE p[2] + F.offset>> : F \in NamedFields(L, p[1])}

Collected == {members.vars[i] : i \in 1..Len(members.vars)}
RootPaths == Paths(members.L, members.RD, 0, FALSE)

\* C28: collectRecordMembers appends every named field reachable from the
\* record through anonymous embeddings exactly once; its offset is -1 when
\* a record on its path is incomplete, dependent, invalid or fails
\* validateRecord (a field type at or below it is incomplete or dependent),
\* and the sum of the field offsets along the path otherwise, so the fields
\* outside the subtrees of such records keep their offsets.
C28_MemberOffsets ==
  members # <<>> /\ members.collected =>
    /\ \A i, j \in 1..Len(members.vars) :
         members.vars[i][1] = members.vars[j][1] => i = j
    /\ {e[1] : e \in Collected}
         = {F.id : F \in UNION {NamedFields(members.L, p[1]) : p \in RootPaths}}
    /\ Collected \subseteq UNION {PathEntries(members.L, p) : p \in RootPaths}

\* a field of the root keeps its offset beside an invalid embedded record
\* whose own field and the field of the record below it get -1
C28_Witness ==
  /\ members # <<>> /\ members.collected
  /\ members.RD = "R0"
  /\ members.L.invalid = {"R1"}
  /\ members.vars = <<<<"a", 0>>, <<"b", 64>>, <<"c", -1>>, <<"n", -1>>,
                      <<"d", -1>>>>


\* the node of ev comes from a template: getAdjustedDecl moves away from it
FromTemplate(ev) == AST[ev.D].adj # ""

\* uses, declarations and definition record of every entity of every
\* IndexFile but the entity of a storage kind under key u in the IndexFile
\* staged under f are what they were before the step
OtherRecordsKept(f, kind, u) ==
  \A g \in DOMAIN dbs' : \A k \in Kinds : \A v \in DOMAIN dbs'[g][MapOf(k)] :
    <<g, k, v>> # <<f, kind, u>> =>
      /\ EntityAt(dbs', g, k, v).uses = EntityAt(dbs, g, k, v).uses
      /\ EntityAt(dbs', g, k, v).declarations
           = EntityAt(dbs, g, k, v).declarations
      /\ EntityAt(dbs', g, k, v).def.spell = EntityAt(dbs, g, k, v).def.spell

\* the record of ev is stored in the entity under key u, and nowhere else
RecordedUnder(ev, u) ==
  LET kind == getKind(ev.D, "Unknown").ret
      before == EntityAt(dbs, routeOf(ev), kind, u)
      after == EntityAt(dbs', routeOf(ev), kind, u)
  IN  /\ u \in DOMAIN dbs'[routeOf(ev)][MapOf(kind)]
      /\ OtherRecordsKept(routeOf(ev), kind, u)
      /\ IF is_def(ev)
           THEN Len(after.def.spell) = 1
           ELSE IF is_decl(ev)
             THEN Len(after.declarations) = Len(before.declarations) + 1
             ELSE Len(after.uses) = Len(before.uses) + 1 + macroUses(ev)

C29_Step(ev) ==
  (Recorded(ev) /\ FromTemplate(ev)) =>
    RecordedUnder(ev, IF is_def(ev)
                        THEN KeyOf(ev.D)
                        ELSE KeyOf(getAdjustedDecl(ev.D)))

C29_StatedStep(ev) ==
  (Recorded(ev) /\ FromTemplate(ev)) =>
    RecordedUnder(ev, KeyOf(getAdjustedDecl(ev.D)))

StagedPaths == {uid2file[g].path : g \in DOMAIN uid2file} \ {""}

\* the staged modification times of a path
StagedTimes(path) ==
  {uid2file[g].mtime : g \in {h \in DOMAIN uid2file : uid2file[h].path = path}}

\* C30: for every IndexFile returned by idx::index, the keys of the
\* dependency map are the non-empty paths of all files staged in the pass,
\* admitted or not, but the IndexFile's own path and the main input path;
\* each is mapped to its staged modification time, and the IndexFile's own
\* mtime is that of the staged entry with the same path.
C30_DependenciesAreTheStagedFiles ==
  \A f \in DOMAIN result :
    /\ DOMAIN result[f].dependencies
         = StagedPaths \ {result[f].path, input.main}
    /\ \A p \in DOMAIN result[f].dependencies :
         StagedTimes(p) = {result[f].dependencies[p]}
    /\ StagedTimes(result[f].path) = {result[f].mtime}

\* the main file's IndexFile is returned with a dependency on a header that
\* was staged but not admitted
C30_Witness ==
  /\ pc = "done"
  /\ \E f \in DOMAIN result, g \in DOMAIN uid2file :
       /\ result[f].path = "main.cc"
       /\ result[f].mtime = 7
       /\ uid2file[g].path = "a.h"
       /\ \A h \in DOMAIN result : result[h].path # "a.h"
       /\ result[f].dependencies = ("a.h" :> 5)


(***************************************************************************)
(* The parser asks shouldSkipFunctionBody while Action->Execute() runs:    *)
(* SkipFunctionBodies is set for every pass (idx::index, "Enable           *)
(* IndexFrontendAction::shouldSkipFunctionBody") and SkipProcessed is      *)
(* installed by every CreateASTConsumer.                                   *)
(***************************************************************************)
\* the declarations with a body: g in the main file, B::m in the header
BodyDecls == {"gDef", "BmDef"}

SkipFunctionBody ==
  /\ pc = "exec"
  /\ nEvents < MaxEvents
  /\ \E d \in BodyDecls :
       /\ bodies' = (d :> Append(Calls(bodies, d),
                                 shouldSkipFunctionBody(Cur, d, input.no_linkage,
                                                        input).ret)) @@ bodies
       /\ Commit(shouldSkipFunctionBody(Cur, d, input.no_linkage, input).P)
  /\ nEvents' = nEvents + 1
  /\ UNCHANGED <<pc, ok, result, input, evlog, covered, failure,
                 listVars, wire, peer, members, call>>

NextBodies ==
  \/ BuildInvocation
  \/ CreateTarget
  \/ BeginSourceFile
  \/ PPFileChanged
  \/ SkipFunctionBody
  \/ ExecuteSucceeds
  \/ EndSourceFile
  \/ Finalize

SpecBodies == Init /\ [][NextBodies]_vars

\* this step asks shouldSkipFunctionBody(d)
Asked(d) == Len(Calls(bodies', d)) = Len(Calls(bodies, d)) + 1
\* and this is the answer
Answer(d) == bodies'[d][Len(bodies'[d])]

\* the file of d is a multi-version file
MultiVersionFile(d) ==
  /\ input.multiVersion
  /\ pathFromFileEntry(AST[d].fid) # ""
  /\ multiVersionMatches(input.whitelist, pathFromFileEntry(AST[d].fid))

C31_Step(d) ==
  Asked(d) =>
    /\ Answer(d) = (~MultiVersionFile(d) /\ AST[d].fid \notin DOMAIN dbs')
    /\ AST[d].fid \in DOMAIN dbs' => ~Answer(d)
    /\ IF MultiVersionFile(d)
         THEN uid2file' = uid2file /\ dbs' = dbs /\ vfs' = vfs
         ELSE AST[d].fid \in DOMAIN uid2file'

\* C31 (as amended): in every pass, whether or not it indexes unlinked
\* symbols, the body of a declaration is skipped exactly when its owning
\* file is not a multi-version file and consumeFile yields no IndexFile for
\* it; the body of a declaration in an admitted file is never skipped.  The
\* question stages the file unless it is a multi-version file.
C31_BodySkippedIffNotAdmitted ==
  [][\A d \in BodyDecls : C31_Step(d)]_vars

\* in a pass that does not index unlinked symbols the header was admitted
\* under another handle, and the body of B::m was skipped
C31_Witness ==
  /\ ~input.no_linkage
  /\ "BmDef" \in DOMAIN bodies
  /\ bodies["BmDef"] = <<TRUE>>
  /\ 2 \in DOMAIN uid2file
  /\ 2 \notin DOMAIN dbs
  /\ 3 \in DOMAIN dbs

\* C31 (as stated): bodies are skipped only when the pass indexes unlinked
\* symbols, and then exactly when the owning file was not admitted and is
\* not a multi-version file.
C31_AsStated ==
  [][\A d \in BodyDecls :
       Asked(d) =>
         Answer(d) = (/\ input.no_linkage
                      /\ ~MultiVersionFile(d)
                      /\ AST[d].fid \notin DOMAIN dbs')]_vars


(***************************************************************************)
(* getKind on its own: every declaration category, listed in the switch    *)
(* or not, with the fine kind the reference holds before the call.         *)
(***************************************************************************)
\* the categories the switch of getKind maps to Func, Type or Var
FuncCategories ==
  {"ObjCMethod", "FunctionTemplate", "Function", "CXXMethod",
   "CXXConstructor", "CXXConversion", "CXXDestructor"}
TypeCategories ==
  {"Namespace", "NamespaceAlias", "ObjCCategory", "ObjCCategoryImpl",
   "ObjCImplementation", "ObjCInterface", "ObjCProtocol", "ObjCProperty",
   "ClassTemplate", "TypeAliasTemplate", "TemplateTemplateParm", "Enum",
   "CXXRecord", "Record", "ClassTemplateSpecialization",
   "ClassTemplatePartialSpecialization", "TemplateTypeParm", "TypeAlias",
   "Typedef", "UnresolvedUsingTypename"}
VarCategories ==
  {"VarTemplate", "Binding", "Field", "ObjCIvar", "NonTypeTemplateParm", "Var",
   "Decomposition", "ImplicitParam", "ParmVar", "VarTemplateSpecialization",
   "VarTemplatePartialSpecialization", "EnumConstant", "UnresolvedUsingValue"}
\* categories the switch does not list
UnlistedCategories ==
  {"AccessSpec", "Block", "BuiltinTemplate", "CXXDeductionGuide", "Captured",
   "Concept", "ConstructorUsingShadow", "Empty", "Export", "ExternCContext",
   "FileScopeAsm", "Friend", "FriendTemplate", "Import", "IndirectField",
   "Label", "MSProperty", "ObjCAtDefsField", "ObjCCompatibleAlias",
   "ObjCPropertyImpl", "ObjCTypeParam", "PragmaComment", "StaticAssert",
   "UsingDirective", "UsingShadow"}
DeclCategories ==
  FuncCategories \cup TypeCategories \cup VarCategories \cup UnlistedCategories
    \cup {"LinkageSpec", "TranslationUnit", "Using"}

InitKinds ==
  /\ pc = "done"
  /\ ok = TRUE
  /\ result = <<>>
  /\ input = CHOOSE i \in PassInputs : ~i.no_linkage /\ ~i.multiVersion
  /\ vfs = {}
  /\ covered = {}
  /\ failure = ""
  /\ nEvents = 0
  /\ FreshPass
  /\ NoList
  /\ wire = <<>>
  /\ peer = NewIndexParam(FALSE)
  /\ members = <<>>
  /\ bodies = <<>>
  /\ \E dk \in DeclCategories, k0 \in {"Unknown", "File"},
        isStruct \in BOOLEAN, isStatic \in BOOLEAN :
       call = [f |-> "getKind", dk |-> dk, k0 |-> k0, isStruct |-> isStruct,
               isStatic |-> isStatic, done |-> FALSE]

\* SymbolKind ls_kind = k0; Kind kind = getKind(D, ls_kind); and the test of
\* case Kind::Invalid
CallGetKind ==
  /\ call.f = "getKind"
  /\ ~call.done
  /\ call' =
       [f |-> "getKind", dk |-> call.dk, k0 |-> call.k0,
        isStruct |-> call.isStruct, isStatic |-> call.isStatic, done |-> TRUE,
        ret |-> getKindOf(call.dk, call.k0, call.isStruct, call.isStatic).ret,
        kind |-> getKindOf(call.dk, call.k0, call.isStruct, call.isStatic).kind,
        logged |->
          unhandledLogged(
            getKindOf(call.dk, call.k0, call.isStruct, call.isStatic).ret,
            getKindOf(call.dk, call.k0, call.isStruct, call.isStatic).kind)]
  /\ UNCHANGED <<passVars, listVars, wire, peer, members, bodies>>

NextKinds == CallGetKind

SpecKinds == InitKinds /\ [][NextKinds]_vars

\* C32: getKind returns for every category: Invalid with the fine kind
\* untouched for linkage-specs, translation units and every unlisted
\* category, Invalid with fine kind Null for using-declarations, and Func,
\* Type or Var with a known fine kind for every other category; so, the fine
\* kind being Unknown before the call, an Invalid event is logged exactly
\* when the fine kind is still Unknown, that is for every Invalid category
\* but the using-declaration.
C32_GetKindTotal ==
  (call # <<>> /\ call.f = "getKind" /\ call.done) =>
    /\ call.dk \in UnlistedCategories \cup {"LinkageSpec", "TranslationUnit"}
         => call.ret = "Invalid" /\ call.kind = call.k0
    /\ call.dk = "Using" => call.ret = "Invalid" /\ call.kind = "Null"
    /\ call.dk \in FuncCategories => call.ret = "Func"
    /\ call.dk \in TypeCategories => call.ret = "Type"
    /\ call.dk \in VarCategories => call.ret = "Var"
    /\ call.ret \in {"Func", "Type", "Var"}
         => call.kind \notin {"Unknown", "Null", "File"}
    /\ call.k0 = "Unknown" =>
         /\ call.logged = (call.ret = "Invalid" /\ call.kind = "Unknown")
         /\ call.logged = (call.ret = "Invalid" /\ call.dk # "Using")

\* a using-declaration is dropped without a log line
C32_Witness ==
  /\ call # <<>> /\ call.f = "getKind" /\ call.done
  /\ call.k0 = "Unknown"
  /\ call.dk = "Using"
  /\ call.ret = "Invalid"
  /\ call.kind = "Null"
  /\ ~call.logged


(***************************************************************************)
(* setName on its own: every rendered declaration of at most MaxName       *)
(* characters, with short names of at most two letters and the qualified   *)
(* name the engine prints for them (a scope followed by the short name).   *)
(***************************************************************************)
Chars == {"o", "p", ":", " ", "(", ")"}
Rendered == UNION {[1..n -> Chars] : n \in 0..MaxName}
ShortNames == UNION {[1..n -> {"o", "p"}] : n \in 0..2}
Scopes == {<<>>, <<"p", ":", ":">>, <<"(", "p", ")", ":", ":">>}

InitNames ==
  /\ pc = "done"
  /\ ok = TRUE
  /\ result = <<>>
  /\ input = CHOOSE i \in PassInputs : ~i.no_linkage /\ ~i.multiVersion
  /\ vfs = {}
  /\ covered = {}
  /\ failure = ""
  /\ nEvents = 0
  /\ FreshPass
  /\ NoList
  /\ wire = <<>>
  /\ peer = NewIndexParam(FALSE)
  /\ members = <<>>
  /\ bodies = <<>>
  /\ \E name \in Rendered, short_name \in ShortNames, scope \in Scopes :
       call = [f |-> "setName", name |-> name, short_name |-> short_name,
               qualified |-> scope \o short_name, done |-> FALSE]

\* setName(D, short_name, qualified, def)
CallSetName ==
  /\ call.f = "setName"
  /\ ~call.done
  /\ call' = [f |-> "setName", name |-> call.name,
              short_name |-> call.short_name, qualified |-> call.qualified,
              done |-> TRUE,
              def |-> setNameOf(call.name, call.short_name, call.qualified)]
  /\ UNCHANGED <<passVars, listVars, wire, peer, members, bodies>>

NextNames == CallSetName

SpecNames == InitNames /\ [][NextNames]_vars

SetNameDone == call # <<>> /\ call.f = "setName" /\ call.done

\* the offsets lie in the detailed signature and locate the short name
OffsetsLocate(def, short_name) ==
  /\ 0 <= def.qual_name_offset
  /\ def.qual_name_offset <= def.short_name_offset
  /\ def.short_name_offset + def.short_name_size <= Len(def.detailed_name)
  /\ SubSeq(def.detailed_name, def.short_name_offset + 1,
            def.short_name_offset + def.short_name_size) = short_name

\* the rendered declaration has an occurrence of the short name that is not
\* part of a longer identifier
Occurs(name, short_name) ==
  \E i \in 0..(Len(name) - Len(short_name)) :
    /\ SubSeq(name, i + 1, i + Len(short_name)) = short_name
    /\ ~(i > 0 /\ isIdentifierBody(CharAt(name, i - 1)))
    /\ ~isIdentifierBody(CharAt(name, i + Len(short_name)))

\* C33: after setName, 0 <= qual_name_offset <= short_name_offset,
\* short_name_offset + short_name_size <= length of the detailed signature,
\* and the substring of the detailed signature of length short_name_size at
\* short_name_offset is the short name.
C33_OffsetsLocateShortName ==
  SetNameDone => OffsetsLocate(call.def, call.short_name)

\* the offsets locate the short name whenever the rendered declaration has
\* an occurrence of it outside longer identifiers, or the short name is empty
C33_OffsetsWhenFound ==
  (SetNameDone
     /\ (Len(call.short_name) = 0 \/ Occurs(call.name, call.short_name)))
    => OffsetsLocate(call.def, call.short_name)

\* without such an occurrence the signature is left as rendered, the offsets
\* are 0 and the size is that of the short name
C33_OffsetsWhenNotFound ==
  (SetNameDone
     /\ Len(call.short_name) > 0 /\ ~Occurs(call.name, call.short_name))
    => /\ call.def.detailed_name = call.name
       /\ call.def.short_name_offset = 0
       /\ call.def.qual_name_offset = 0
       /\ call.def.short_name_size = Len(call.short_name)


(***************************************************************************)
(* getFileLID on one IndexFile: a sequence of macro-spelling uses in files *)
(* with and without a FileEntry, then the flattening of idx::index.        *)
(***************************************************************************)
\* file handles 4 and 5 have no FileEntry
Handles == Fids \cup {5}

InitLids ==
  /\ pc = "done"
  /\ ok = TRUE
  /\ result = <<>>
  /\ input = CHOOSE i \in PassInputs : ~i.no_linkage /\ ~i.multiVersion
  /\ vfs = {}
  /\ covered = {}
  /\ failure = ""
  /\ nEvents = 0
  /\ FreshPass
  /\ NoList
  /\ wire = <<>>
  /\ peer = NewIndexParam(FALSE)
  /\ members = <<>>
  /\ bodies = <<>>
  /\ call = [f |-> "getFileLID", db |-> NewIndexFile("main.cc", FALSE),
             log |-> <<>>, done |-> FALSE]

\* addMacroUse(db, sm, usr, Kind::Var, sl) with sl at position spell of file
\* fid; log keeps the handle and the value getFileLID returned
CallGetFileLID ==
  /\ call.f = "getFileLID"
  /\ ~call.done
  /\ Len(call.log) < MaxCalls
  /\ \E fid \in Handles, spell \in Locs :
       call' = [call EXCEPT
                  !.db = addMacroUse(@, KeyOf("lv"), "Var", fid, spell),
                  !.log = Append(@, <<fid, getFileLID(call.db, fid).lid>>)]
  /\ UNCHANGED <<passVars, listVars, wire, peer, members, bodies>>

\* the loop body of idx::index on this IndexFile
FinalizeLids ==
  /\ call.f = "getFileLID"
  /\ ~call.done
  /\ call' = [call EXCEPT !.db = finalizeEntry(@, <<>>, "main.cc"),
                          !.done = TRUE]
  /\ UNCHANGED <<passVars, listVars, wire, peer, members, bodies>>

NextLids == CallGetFileLID \/ FinalizeLids

SpecLids == InitLids /\ [][NextLids]_vars

LidCalls == IF call # <<>> /\ call.f = "getFileLID" THEN call.log ELSE <<>>

\* the local-file indices stored in the use records of an IndexFile
StoredLids(db) ==
  UNION {{db.usr2var[u].uses[i].file_id : i \in 1..Len(db.usr2var[u].uses)} :
           u \in DOMAIN db.usr2var}

\* the calls in log for handles in H are stable and injective
StableOn(log, H) ==
  \A i, j \in 1..Len(log) :
    (log[i][1] \in H /\ log[j][1] = log[i][1]) => log[j][2] = log[i][2]

InjectiveOn(log, H) ==
  \A i, j \in 1..Len(log) :
    (log[i][1] \in H /\ log[j][1] \in H /\ log[i][1] # log[j][1]
       /\ log[i][2] >= 0 /\ log[j][2] >= 0) => log[i][2] # log[j][2]

\* after the flattening every stored index of a handle in H is listed with
\* a non-empty path
ListedOn(H) ==
  (call # <<>> /\ call.f = "getFileLID" /\ call.done) =>
    \A i \in 1..Len(call.log) :
      (call.log[i][1] \in H /\ call.log[i][2] >= 0) =>
        \E e \in call.db.lid2path : e[1] = call.log[i][2] /\ e[2] # ""

\* C34: within one IndexFile every call of getFileLID for the same handle
\* returns the same value (-1 included), distinct handles with non-negative
\* results get distinct indices, and after finalization every non-negative
\* index stored in a record is in lid2path with a non-empty path.
C34_LidsStableInjectiveListed ==
  /\ StableOn(LidCalls, Handles)
  /\ InjectiveOn(LidCalls, Handles)
  /\ (call # <<>> /\ call.f = "getFileLID" /\ call.done) =>
       \A lid \in StoredLids(call.db) :
         lid >= 0 => \E e \in call.db.lid2path : e[1] = lid /\ e[2] # ""

Resolvable == {f \in Handles : pathFromFileEntry(f) # ""}

\* the three parts hold for the handles that have a FileEntry
C34_ResolvableHandles ==
  /\ StableOn(LidCalls, Resolvable)
  /\ InjectiveOn(LidCalls, Resolvable)
  /\ ListedOn(Resolvable)

\* a handle without a FileEntry gets -1 from its first call and 0 from every
\* later one
C34_UnresolvableHandles ==
  \A i \in 1..Len(LidCalls) :
    LidCalls[i][1] \notin Resolvable =>
      LidCalls[i][2] =
        IF \E j \in 1..(i - 1) : LidCalls[j][1] = LidCalls[i][1]
          THEN 0 ELSE -1


(***************************************************************************)
(* The storage kind and the second switch.                                 *)
(***************************************************************************)
C35_Step(ev) ==
  Recorded(ev) =>
    /\ getKind(adjusted(ev), "Unknown").ret = getKind(ev.D, "Unknown").ret
    /\ linkedEntity(AST[adjusted(ev)].kind)
         \in {"", getKind(ev.D, "Unknown").ret}
    /\ KeyOf(adjusted(ev))
         \in DOMAIN dbs'[routeOf(ev)][MapOf(getKind(ev.D, "Unknown").ret)]

\* C35: for every event that is not dropped the adjusted node has the
\* storage kind of the original node, the case of the second switch for the
\* adjusted node dereferences no entity pointer but the one of that storage
\* kind, and the entity of that kind under the adjusted node's key exists in
\* the target IndexFile after the event.
C35_LinkingUsesTheCreatedEntity ==
  [][\A ev \in DeclOccurrences : C35_Step(ev)]_vars

\* a reference to the member class I2 was recorded: its storage kind came
\* from I2, the second switch ran the CXXRecord case on I0 and used the Type
\* entity under the key of I0
C35_Witness ==
  /\ Count(evlog, DeclEv("I2", {"Reference"}, getMainFileID, 1,
                         SpellingAt(1), ContainerAt(1))) >= 1
  /\ getAdjustedDecl("I2") = "I0"
  /\ linkedEntity(AST["I0"].kind) = "Type"
  /\ \E f \in DOMAIN dbs :
       /\ KeyOf("I0") \in DOMAIN dbs[f].usr2type
       /\ Len(dbs[f].usr2type[KeyOf("I0")].uses) >= 1

\* every declaration category with a case in the second switch is stored as
\* the kind whose pointer that case dereferences
C35_CategoriesAgree ==
  (call # <<>> /\ call.f = "getKind" /\ call.done) =>
    linkedEntity(call.dk) \in {"", call.ret}


(***************************************************************************)
(* The unwrapping traversals on their own.  collectRecordMembers runs on   *)
(* records W0, W1, W2, each with one named scalar field and one field of   *)
(* record type, named or unnamed, that may point at any of the three.  A   *)
(* field whose type was incomplete where it was declared makes its record  *)
(* invalid, so every cycle of by-value fields holds an invalid record.     *)
(* getAdjustedDecl and the anonymous-namespace walk run on the nodes of    *)
(* the translation unit.                                                   *)
(***************************************************************************)
Records == {"W0", "W1", "W2"}

WalkLayout(target, unnamed, invalid) ==
  [fields |->
     [RD \in Records |->
        <<Field(<<RD, "x">>, TRUE, 0, "", FALSE)>>
          \o (IF target[RD] = ""
                THEN <<>>
                ELSE <<Field(<<RD, "r">>, RD \notin unnamed, 8, target[RD],
                             FALSE)>>)],
   incomplete |-> {},
   dependent |-> {},
   invalid |-> invalid]

\* the records of S and those reached from them through fields of record
\* type: every such field, or only the unnamed ones; only records of V count
RECURSIVE Reached(_, _, _, _)
Reached(L, S, unnamedOnly, V) ==
  LET T == S \cup UNION {{L.fields[R][i].rec :
                            i \in {j \in 1..Len(L.fields[R]) :
                                     /\ L.fields[R][j].rec \in V
                                     /\ unnamedOnly => ~L.fields[R][j].named}} :
                          R \in S}
  IN  IF T = S THEN S ELSE Reached(L, T, unnamedOnly, V)

\* R lies on a cycle of by-value fields of valid records
OnValidCycle(L, R) ==
  /\ R \notin L.invalid
  /\ \E i \in 1..Len(L.fields[R]) :
       /\ L.fields[R][i].rec \in Records \ L.invalid
       /\ R \in Reached(L, {L.fields[R][i].rec}, FALSE, Records \ L.invalid)

WalkLayouts ==
  {L \in {WalkLayout(target, unnamed, invalid) :
            target \in [Records -> Records \cup {""}],
            unnamed \in SUBSET Records, invalid \in SUBSET Records} :
     \A R \in Records : ~OnValidCycle(L, R)}

\* the loop of collectRecordMembers pops a record for which validateRecord
\* nests without end
Overflows(L, RD) ==
  \E R \in Reached(L, {RD}, TRUE, Records) :
    /\ R \notin L.incomplete
    /\ R \notin L.dependent
    /\ R \notin L.invalid
    /\ validateNested(L, R, 1, 1) = "overflow"

InitWalks ==
  /\ pc = "done"
  /\ ok = TRUE
  /\ result = <<>>
  /\ input = CHOOSE i \in PassInputs : ~i.no_linkage /\ ~i.multiVersion
  /\ vfs = {}
  /\ covered = {}
  /\ failure = ""
  /\ nEvents = 0
  /\ FreshPass
  /\ NoList
  /\ wire = <<>>
  /\ peer = NewIndexParam(FALSE)
  /\ members = <<>>
  /\ bodies = <<>>
  /\ \/ \E L \in WalkLayouts, RD \in Records :
          call = [f |-> "collectRecordMembers", L |-> L, RD |-> RD,
                  done |-> FALSE]
     \/ \E D \in DOMAIN AST \cup {""} :
          call = [f |-> "getAdjustedDecl", D |-> D, done |-> FALSE]
     \/ \E DC \in DOMAIN AST :
          call = [f |-> "skipAnonymous", D |-> DC, done |-> FALSE]

\* collectRecordMembers(type, RD): the members it emplaces, or a recursion
\* of validateRecord that does not return
CallCollectRecordMembers ==
  /\ call.f = "collectRecordMembers"
  /\ ~call.done
  /\ call' = [f |-> "collectRecordMembers", L |-> call.L, RD |-> call.RD,
              done |-> TRUE,
              returns |-> ~Overflows(call.L, call.RD),
              vars |-> IF Overflows(call.L, call.RD)
                         THEN <<>>
                         ELSE collectMembers(call.L, call.RD)]
  /\ UNCHANGED <<passVars, listVars, wire, peer, members, bodies>>

\* D1 = getAdjustedDecl(D), and getAdjustedDecl(D1)
CallGetAdjustedDecl ==
  /\ call.f = "getAdjustedDecl"
  /\ ~call.done
  /\ call' = [f |-> "getAdjustedDecl", D |-> call.D, done |-> TRUE,
              ret |-> getAdjustedDecl(call.D),
              again |-> getAdjustedDecl(getAdjustedDecl(call.D))]
  /\ UNCHANGED <<passVars, listVars, wire, peer, members, bodies>>

\* the loop that leaves anonymous namespaces, from the container DC
CallSkipAnonymous ==
  /\ call.f = "skipAnonymous"
  /\ ~call.done
  /\ call' = [f |-> "skipAnonymous", D |-> call.D, done |-> TRUE,
              ret |-> skipAnonymous(call.D)]
  /\ UNCHANGED <<passVars, listVars, wire, peer, members, bodies>>

NextWalks ==
  CallCollectRecordMembers \/ CallGetAdjustedDecl \/ CallSkipAnonymous

SpecWalks == InitWalks /\ [][NextWalks]_vars

WalkDone(f) == call # <<>> /\ call.f = f /\ call.done

\* the containers of DC, DC included
RECURSIVE Ancestors(_)
Ancestors(DC) ==
  IF AST[DC].sem = DC THEN {DC} ELSE {DC} \cup Ancestors(AST[DC].sem)

Anonymous(DC) == AST[DC].kind = "Namespace" /\ AST[DC].anon

\* collectRecordMembers returned, and emplaced no field twice
CollectReturns ==
  WalkDone("collectRecordMembers") =>
    /\ call.returns
    /\ \A i, j \in 1..Len(call.vars) :
         call.vars[i][1] = call.vars[j][1] => i = j

\* the walk ends at the nearest ancestor that is no anonymous namespace
WalkEndsAtNearest ==
  WalkDone("skipAnonymous") =>
    /\ call.ret \in Ancestors(call.D)
    /\ ~Anonymous(call.ret)
    /\ \A A \in Ancestors(call.D) \ Ancestors(call.ret) : Anonymous(A)

\* getAdjustedDecl returns a node it does not replace
AdjustedIsFixed ==
  WalkDone("getAdjustedDecl") =>
    /\ call.again = call.ret
    /\ call.ret # "" => AST[call.ret].adj = ""

\* C36: the unwrapping traversals terminate on every input:
\* collectRecordMembers visits each record at most once and finishes even
\* when embedded records refer back to a visited record, the anonymous
\* namespace walk ends at the nearest non-anonymous ancestor, and
\* getAdjustedDecl(getAdjustedDecl(D)) = getAdjustedDecl(D).
C36_TraversalsTerminate ==
  CollectReturns /\ WalkEndsAtNearest /\ AdjustedIsFixed

\* the two walks along the tree of declarations behave as stated
C36_NodeWalks == WalkEndsAtNearest /\ AdjustedIsFixed

\* collectRecordMembers returns, with no field emplaced twice, unless
\* a record reached from the one it was called for reaches itself through
\* fields of record type
C36_CollectReturnsWithoutCycle ==
  (WalkDone("collectRecordMembers")
     /\ \A R \in Reached(call.L, {call.RD}, FALSE, Records) :
          \A i \in 1..Len(call.L.fields[R]) :
            call.L.fields[R][i].rec # "" =>
              R \notin Reached(call.L, {call.L.fields[R][i].rec}, FALSE,
                               Records))
    => CollectReturns


\* a call that returned although the record embeds itself anonymously: every
\* record popped on the way was invalid, and the set Seen ended the loop
C36_SeenEndsTheLoop ==
  /\ WalkDone("collectRecordMembers")
  /\ call.returns
  /\ Len(call.L.fields[call.RD]) = 2
  /\ ~call.L.fields[call.RD][2].named
  /\ call.RD \in Reached(call.L, {call.L.fields[call.RD][2].rec}, TRUE, Records)
  /\ call.vars # <<>>

====
